---- MODULE Spec2Model ----
(***************************************************************************)
(* A model of go-smtpsrv's per-connection SMTP conversation: the session   *)
(* (Request), the dispatcher (Request.Serve / Request.Process) and the     *)
(* command processors of the processor table (DefaultProcessors); and of   *)
(* the address muxer (ServeMux.Handle / ServeMux.ServeSMTP).               *)
(*                                                                         *)
(* Strings are sequences of one-character strings, so that Split, ToUpper, *)
(* HasPrefix, Index and the address pattern are computed, not assumed.     *)
(* Bytes of a DATA payload are one-character strings too, with "CR" and    *)
(* "LF" standing for the two line-ending bytes.                            *)
(***************************************************************************)
EXTENDS Integers, Sequences, FiniteSets, TLC

(***************************************************************************)
(* Bounds of the model.                                                    *)
(***************************************************************************)
\* the Server.MaxBodySize of the servers that cap the DATA size
BodyLimit == 4
\* longest recipient list a transaction accumulates
MaxRcpt == 2
\* sessions served at the same time, and command lines each of them reads
NumSessions == 2
MaxLines == 2
\* temporary accept errors in a row, and connections accepted
MaxBackoffs == 10
MaxConns == 4
\* longest local part and longest domain given to the address functions
MaxLocal == 3
MaxDomain == 2

(***************************************************************************)
(* Strings.                                                                *)
(***************************************************************************)
LowerAlpha ==
  <<"a","b","c","d","e","f","g","h","i","j","k","l","m",
    "n","o","p","q","r","s","t","u","v","w","x","y","z">>

UpperAlpha ==
  <<"A","B","C","D","E","F","G","H","I","J","K","L","M",
    "N","O","P","Q","R","S","T","U","V","W","X","Y","Z">>

\* the whitespace characters of Go's \s / unicode.IsSpace that can occur here
Whitespace == {" ", "TAB", "CR", "LF"}

ToUpperChar(c) ==
  IF \E i \in 1..Len(LowerAlpha) : LowerAlpha[i] = c
    THEN UpperAlpha[CHOOSE i \in 1..Len(LowerAlpha) : LowerAlpha[i] = c]
    ELSE c

\* strings.ToUpper
ToUpper(s) == [i \in 1..Len(s) |-> ToUpperChar(s[i])]

\* strings.Index(s, c) for a one-character c, 1-based; 0 when absent (Go: -1)
Index(s, c) ==
  IF \E i \in 1..Len(s) : s[i] = c
    THEN CHOOSE i \in 1..Len(s) : s[i] = c /\ \A j \in 1..(i-1) : s[j] # c
    ELSE 0

\* strings.HasPrefix
HasPrefix(s, p) == Len(s) >= Len(p) /\ SubSeq(s, 1, Len(p)) = p

\* s[i+1:] for a 1-based index i of the last character dropped
From1(s, i) == SubSeq(s, i + 1, Len(s))

\* strings.Split(s, " "): always at least one token, empty tokens kept
RECURSIVE Split(_)
Split(s) ==
  LET i == Index(s, " ")
  IN  IF i = 0 THEN <<s>>
      ELSE <<SubSeq(s, 1, i - 1)>> \o Split(From1(s, i))

\* strings.TrimSpace
RECURSIVE TrimSpace(_)
TrimSpace(s) ==
  IF s = <<>> THEN s
  ELSE IF s[1] \in Whitespace THEN TrimSpace(Tail(s))
  ELSE IF s[Len(s)] \in Whitespace THEN TrimSpace(SubSeq(s, 1, Len(s) - 1))
  ELSE s

ToLowerChar(c) ==
  IF \E i \in 1..Len(UpperAlpha) : UpperAlpha[i] = c
    THEN LowerAlpha[CHOOSE i \in 1..Len(UpperAlpha) : UpperAlpha[i] = c]
    ELSE c

\* strings.ToLower
ToLower(s) == [i \in 1..Len(s) |-> ToLowerChar(s[i])]

\* strings.LastIndex(s, c) for a one-character c, 1-based; 0 when absent
\* (Go: -1)
LastIndex(s, c) ==
  IF \E i \in 1..Len(s) : s[i] = c
    THEN CHOOSE i \in 1..Len(s) :
           s[i] = c /\ \A j \in (i+1)..Len(s) : s[j] # c
    ELSE 0

\* strings.Replace(s, ".", "", -1)
RemoveDots(s) == SelectSeq(s, LAMBDA c : c # ".")

(***************************************************************************)
(* emailRegExp = ^<((\S+)@(\S+))?>$                                        *)
(***************************************************************************)
\* the text between the angle brackets
Inner(s) == SubSeq(s, 2, Len(s) - 1)

\* positions of an "@" with at least one character on each side
AtSplits(in) == {i \in 2..(Len(in) - 1) : in[i] = "@"}

\* emailRegExp.MatchString
emailRegExpMatch(s) ==
  /\ Len(s) >= 2
  /\ s[1] = "<"
  /\ s[Len(s)] = ">"
  /\ \/ Inner(s) = <<>>
     \/ /\ \A i \in 1..Len(Inner(s)) : Inner(s)[i] \notin Whitespace
        /\ AtSplits(Inner(s)) # {}

\* emailRegExp.FindStringSubmatch(s)[1]: the whole address, "" for <>
emailRegExpAddr(s) == Inner(s)

\* emailRegExp.FindStringSubmatch(s)[3]: the domain; the local part is greedy
emailRegExpDomain(s) ==
  IF Inner(s) = <<>> THEN <<>>
  ELSE LET at == CHOOSE i \in AtSplits(Inner(s)) :
                   \A j \in AtSplits(Inner(s)) : j <= i
       IN  From1(Inner(s), at)

(***************************************************************************)
(* The words a client can send.                                            *)
(***************************************************************************)
vEHLO == <<"E","H","L","O">>
vHELO == <<"H","E","L","O">>
vSTARTTLS == <<"S","T","A","R","T","T","L","S">>
vAUTH == <<"A","U","T","H">>
vMAIL == <<"M","A","I","L">>
vRCPT == <<"R","C","P","T">>
vDATA == <<"D","A","T","A">>
vRSET == <<"R","S","E","T">>
vVRFY == <<"V","R","F","Y">>
vEXPN == <<"E","X","P","N">>
vHELP == <<"H","E","L","P">>
vNOOP == <<"N","O","O","P">>
vQUIT == <<"Q","U","I","T">>
vXYZZY == <<"X","Y","Z","Z","Y">>
tPLAIN == <<"P","L","A","I","N">>
tFROM == <<"F","R","O","M",":">>
tTO == <<"T","O",":">>
tMe == <<"m","e">>
tFoo == <<"f","o","o">>
AddrA == <<"a","@","x">>
AddrB == <<"b","@","y">>

\* a word in lower case, as a client may spell a verb
Lower(w) ==
  [i \in 1..Len(w) |->
     IF \E k \in 1..Len(UpperAlpha) : UpperAlpha[k] = w[i]
       THEN LowerAlpha[CHOOSE k \in 1..Len(UpperAlpha) : UpperAlpha[k] = w[i]]
       ELSE w[i]]

\* an address between angle brackets
Angle(a) == <<"<">> \o a \o <<">">>

\* words joined by single spaces into one command line
RECURSIVE Join(_)
Join(ws) ==
  IF Len(ws) = 0 THEN <<>>
  ELSE IF Len(ws) = 1 THEN ws[1]
  ELSE ws[1] \o <<" ">> \o Join(Tail(ws))

(***************************************************************************)
(* base64.StdEncoding.DecodeString and the split of AUTH PLAIN's argument. *)
(***************************************************************************)
B64Chars ==
     <<"A","B","C","D","E","F","G","H","I","J","K","L","M","N","O","P">>
  \o <<"Q","R","S","T","U","V","W","X","Y","Z","a","b","c","d","e","f">>
  \o <<"g","h","i","j","k","l","m","n","o","p","q","r","s","t","u","v">>
  \o <<"w","x","y","z","0","1","2","3","4","5","6","7","8","9","+","/">>

B64Val(c) ==
  IF c = "=" THEN 0
  ELSE (CHOOSE i \in 1..Len(B64Chars) : B64Chars[i] = c) - 1

\* DecodeString returns an error (CorruptInputError) exactly when this fails
B64Valid(s) ==
  /\ Len(s) % 4 = 0
  /\ \A i \in 1..Len(s) :
       \/ \E k \in 1..Len(B64Chars) : B64Chars[k] = s[i]
       \/ /\ s[i] = "="
          /\ i >= Len(s) - 1
          /\ s[Len(s)] = "="

\* the bytes (0..255) of one group of four characters
B64Quad(q) ==
  LET n == B64Val(q[1]) * 262144 + B64Val(q[2]) * 4096
           + B64Val(q[3]) * 64 + B64Val(q[4])
      b == <<n \div 65536, (n \div 256) % 256, n % 256>>
  IN  IF q[3] = "=" THEN SubSeq(b, 1, 1)
      ELSE IF q[4] = "=" THEN SubSeq(b, 1, 2)
      ELSE b

RECURSIVE B64Decode(_)
B64Decode(s) ==
  IF Len(s) < 4 THEN <<>>
  ELSE B64Quad(SubSeq(s, 1, 4)) \o B64Decode(From1(s, 4))

\* bytes.Split(b, []byte{0}): always at least one part
RECURSIVE SplitNul(_)
SplitNul(b) ==
  IF \E i \in 1..Len(b) : b[i] = 0
    THEN LET i == CHOOSE k \in 1..Len(b) :
                    b[k] = 0 /\ \A j \in 1..(k-1) : b[j] # 0
         IN  <<SubSeq(b, 1, i - 1)>> \o SplitNul(From1(b, i))
    ELSE <<b>>

\* string(bytes), for the ASCII letters the credentials here are made of
ByteChar(b) ==
  IF b \in 97..122 THEN LowerAlpha[b - 96]
  ELSE IF b \in 65..90 THEN UpperAlpha[b - 64]
  ELSE "?"

BytesToString(bs) == [i \in 1..Len(bs) |-> ByteChar(bs[i])]

\* base64 of NUL "u" NUL "p": a well-formed PLAIN response
CredGood == <<"A","H","U","A","c","A","=","=">>
\* base64 of "up": decodes, but is not three NUL-separated parts
CredNoNul == <<"d","X","A","=">>
\* not base64 at all
CredBad == <<"!","!","!","!">>

(***************************************************************************)
(* The command lines of the model's clients.                               *)
(***************************************************************************)
ClientLines ==
  { Join(<<vEHLO, tMe>>), Join(<<Lower(vHELO), tMe>>), vEHLO,
    vSTARTTLS,
    vAUTH, Join(<<vAUTH, tPLAIN>>), Join(<<vAUTH, tPLAIN, CredGood>>),
    Join(<<vAUTH, tPLAIN, CredNoNul>>), Join(<<vAUTH, tPLAIN, CredBad>>),
    vMAIL, Join(<<vMAIL, tFROM \o Angle(AddrA)>>),
    Join(<<vMAIL, tFROM \o Angle(<<>>)>>),
    Join(<<vMAIL, Lower(tFROM) \o Angle(AddrA)>>),
    Join(<<vMAIL, tFROM \o AddrA>>),
    vRCPT, Join(<<vRCPT, tTO \o Angle(AddrB)>>),
    Join(<<vRCPT, tTO \o Angle(<<>>)>>),
    Join(<<vRCPT, Lower(tTO) \o Angle(AddrB)>>),
    Join(<<vRCPT, tTO \o AddrB>>),
    vDATA,
    vRSET, vVRFY, vEXPN, vHELP, vNOOP, vQUIT, Lower(vQUIT),
    Join(<<vXYZZY, tFoo>>), <<>> }

\* the second line of a two-step AUTH PLAIN
AuthLines == {CredGood, CredNoNul}

\* what reading that second line gives: a line, or a failed connection
AuthReads ==
  {[line |-> l, ok |-> TRUE] : l \in AuthLines}
    \cup {[line |-> <<>>, ok |-> FALSE]}

(***************************************************************************)
(* DATA payloads: the bytes the dot reader yields for the client's body.   *)
(***************************************************************************)
\* a header line and the blank line
MsgHeader == <<"k", ":", "LF", "LF">>
\* a header line, the blank line and one byte of body
MsgBody == <<"k", ":", "LF", "LF", "k">>
\* two header lines and the blank line
MsgLong == <<"k", ":", "LF", "k", ":", "LF", "LF">>
\* a first line that is no header line
MsgNoColon == <<"k", "LF", "LF", "k">>

Payloads == {MsgHeader, MsgBody, MsgLong, MsgNoColon}

(***************************************************************************)
(* The size-capped reader and net/mail's ReadMessage.                      *)
(***************************************************************************)
Take(r, n) == SubSeq(r, 1, IF Len(r) < n THEN Len(r) ELSE n)

\* LimitDataSize: io.MultiReader(io.LimitReader(r, s), "\r\n.\r\n") when s > 0
LimitDataSize(r, s) ==
  IF s > 0 THEN Take(r, s) \o <<"CR", "LF", ".", "CR", "LF">>
  ELSE r

\* req.Message before DATA and after Reset
NilMessage == [present |-> FALSE, Header |-> <<>>, Body |-> <<>>]

\* textproto's ReadLine on the bytes left: the line without its line ending
TakeLine(data) ==
  LET i == Index(data, "LF")
  IN  IF i = 0 THEN [line |-> data, rest |-> <<>>, ended |-> FALSE]
      ELSE [line |-> IF i > 1 /\ data[i - 1] = "CR"
                       THEN SubSeq(data, 1, i - 2)
                       ELSE SubSeq(data, 1, i - 1),
            rest |-> From1(data, i),
            ended |-> TRUE]

\* textproto's ReadMIMEHeader as mail.ReadMessage uses it: header lines up to
\* the blank line; a line without a colon, or the end of the data before the
\* blank line, is an error; a line with an empty key is skipped
RECURSIVE ReadHeader(_, _)
ReadHeader(data, hdr) ==
  IF data = <<>> THEN [ok |-> FALSE, msg |-> NilMessage]
  ELSE LET l == TakeLine(data)
       IN  IF l.line = <<>>
             THEN [ok |-> TRUE,
                   msg |-> [present |-> TRUE, Header |-> hdr, Body |-> l.rest]]
           ELSE IF Index(l.line, ":") = 0
             THEN [ok |-> FALSE, msg |-> NilMessage]
           ELSE IF Index(l.line, ":") = 1
             THEN ReadHeader(l.rest, hdr)
           ELSE ReadHeader(l.rest, Append(hdr, l.line))

\* mail.ReadMessage(r): the parsed header, and the rest of r as the body the
\* handler reads
ReadMessage(data) == ReadHeader(data, <<>>)

(***************************************************************************)
(* The address muxer (ServeMux): a table domain -> local -> entry.  A Go   *)
(* map is a function whose domain is the set of its keys.                  *)
(***************************************************************************)
Star == <<"*">>

\* m[k] = v on a Go map
Put(m, k, v) == [x \in DOMAIN m \cup {k} |-> IF x = k THEN v ELSE m[x]]

\* NewServeMux: make(map[string]map[string]muxEntry)
NewServeMux == [m |-> <<>>]

\* a split at the first "@"
SplitAddress_FirstAt(address) ==
  LET sepInd == Index(address, "@")
  IN  IF sepInd = 0
        THEN [local |-> <<>>, domain |-> <<>>, err |-> TRUE]
        ELSE [local |-> SubSeq(address, 1, sepInd - 1),
              domain |-> From1(address, sepInd),
              err |-> FALSE]

\* SplitAddress: the parts before and after the last "@"
SplitAddress(address) ==
  LET sepInd == LastIndex(address, "@")
  IN  IF sepInd = 0
        THEN [local |-> <<>>, domain |-> <<>>, err |-> TRUE]
        ELSE [local |-> SubSeq(address, 1, sepInd - 1),
              domain |-> From1(address, sepInd),
              err |-> FALSE]

\* CanonicalizeEmail; Go's li > 0 is the 1-based li > 1
CanonicalizeEmail(local) ==
  LET a == RemoveDots(ToLower(TrimSpace(local)))
      li == LastIndex(a, "+")
  IN  IF li > 1 THEN SubSeq(a, 1, li - 1) ELSE a

\* ServeMux.Handle; fatal: log.Fatal was called, which ends the process
Handle(mux, pattern, handler) ==
  LET a == SplitAddress(pattern)
      l == IF a.local = <<>> THEN Star ELSE a.local
      d == a.domain
      cl == CanonicalizeEmail(l)
      dp == IF d \in DOMAIN mux.m THEN mux.m[d] ELSE <<>>
  IN  IF a.err THEN [mux |-> mux, fatal |-> TRUE]
      ELSE IF cl \in DOMAIN dp
        THEN [mux |-> mux, fatal |-> TRUE]
      ELSE [mux |-> [mux EXCEPT !.m =
                       Put(@, d, Put(dp, l, [h |-> handler,
                                             pattern |-> pattern]))],
            fatal |-> FALSE]

\* ap.h.ServeSMTP(envelope): the handler is called and its error returned
Invoke(ap, herr) == [called |-> <<ap.h>>, err |-> herr]

\* errors.New(text) returned without calling a handler
Fail(text) == [called |-> <<>>, err |-> text]

\* a dispatch that looks at the slot of the exact local only
ServeSMTP_ExactOnly(mux, to, herr) ==
  LET a == SplitAddress(to)
      cl == CanonicalizeEmail(a.local)
  IN  IF a.err THEN Fail("Invalid Address")
      ELSE IF a.domain \in DOMAIN mux.m /\ cl \in DOMAIN mux.m[a.domain]
        THEN Invoke(mux.m[a.domain][cl], herr)
      ELSE Fail("Bad Address")

\* a dispatch that never falls back to the domain "*"
ServeSMTP_NoDomainWildcard(mux, to, herr) ==
  LET a == SplitAddress(to)
      d == a.domain
      cl == CanonicalizeEmail(a.local)
  IN  IF a.err THEN Fail("Invalid Address")
      ELSE IF d \in DOMAIN mux.m
        THEN IF cl \in DOMAIN mux.m[d] THEN Invoke(mux.m[d][cl], herr)
             ELSE IF Star \in DOMAIN mux.m[d] THEN Invoke(mux.m[d][Star], herr)
             ELSE Fail("Bad Address")
      ELSE Fail("Bad Address")

\* ServeMux.ServeSMTP for the recipient to; herr: what the handler returns
ServeSMTP(mux, to, herr) ==
  LET a == SplitAddress(to)
      d == a.domain
      cl == CanonicalizeEmail(a.local)
  IN  IF a.err THEN Fail("Invalid Address")
      ELSE IF d \in DOMAIN mux.m
        THEN IF cl \in DOMAIN mux.m[d] THEN Invoke(mux.m[d][cl], herr)
             ELSE IF Star \in DOMAIN mux.m[d] THEN Invoke(mux.m[d][Star], herr)
             ELSE Fail("Bad Address")
      ELSE IF Star \in DOMAIN mux.m
        THEN IF cl \in DOMAIN mux.m[Star] THEN Invoke(mux.m[Star][cl], herr)
             ELSE IF Star \in DOMAIN mux.m[Star]
               THEN Invoke(mux.m[Star][Star], herr)
             ELSE Fail("Bad Address")
      ELSE Fail("Bad Address")

\* before any operation on the muxer or the dispatcher alone
NoOp == [op |-> "none"]

(***************************************************************************)
(* The state: one server configuration and one session of it, and one      *)
(* muxer.                                                                  *)
(***************************************************************************)
VARIABLES
  Server,   \* the Server the session belongs to (part_002, type Server)
  req,      \* the session's Request
  pc,       \* where Request.Serve is: "greet", "loop", "defer" (Serve has
            \* returned), "textproto-closed" or "closed"
  err,      \* the I/O error that ended the session, "" if none
  events,   \* what the last command did, in order: replies written, body
            \* reads, handler and callback invocations, TLS handshakes
  mux,      \* the ServeMux
  last      \* the last call made on the muxer, or on Process's lookup
            \* alone, with what it returned

vars == <<Server, req, pc, err, events, mux, last>>

\* DefaultProcessors: verb -> processor
DefaultProcessors ==
  [v \in {vEHLO, vHELO, vSTARTTLS, vAUTH, vMAIL, vRCPT, vDATA, vRSET,
          vVRFY, vEXPN, vHELP, vNOOP, vQUIT} |->
     CASE v \in {vEHLO, vHELO} -> "ehloProcessor"
       [] v = vSTARTTLS -> "starttlsProcessor"
       [] v = vAUTH -> "authProcessor"
       [] v = vMAIL -> "mailProcessor"
       [] v = vRCPT -> "rcptProcessor"
       [] v = vDATA -> "dataProcessor"
       [] v = vRSET -> "rsetProcessor"
       [] v = vVRFY -> "vrfyProcessor"
       [] v = vEXPN -> "expnProcessor"
       [] v = vHELP -> "helpProcessor"
       [] v = vNOOP -> "noopProcessor"
       [] v = vQUIT -> "quitProcessor"]

\* the configurations a server can be started with
Servers ==
  [Name : {"localhost"},
   TLSConfig : BOOLEAN,         \* TLSConfig != nil
   Auth : BOOLEAN,              \* Auth != nil
   Addressable : BOOLEAN,       \* Addressable != nil
   Processors : {"nil", "DefaultProcessors"},
   MaxBodySize : {0, BodyLimit}]   \* 0: no cap

\* a Reset that also logs the user out
Reset_ClearsAuth(r) ==
  [r EXCEPT !.From = <<>>,
            !.MailFromReceived = FALSE,
            !.To = <<>>,
            !.Message = NilMessage,
            !.AuthUser = <<>>]

\* a Reset that forgets to clear the recipients
Reset_KeepsRecipients(r) ==
  [r EXCEPT !.From = <<>>,
            !.MailFromReceived = FALSE,
            !.Message = NilMessage]

\* Request.Reset
Reset(r) ==
  [r EXCEPT !.From = <<>>,
            !.MailFromReceived = FALSE,
            !.To = <<>>,
            !.Message = NilMessage]

\* NewRequest
NewRequest ==
  Reset([Conn |-> "tcp",
         TLSState |-> FALSE,            \* TLSState != nil
         RemoteAddr |-> "peer",
         HelloHost |-> <<>>,
         HelloRecieved |-> FALSE,
         MailFromReceived |-> FALSE,
         AuthUser |-> <<>>,
         From |-> <<>>,
         To |-> <<>>,
         Message |-> NilMessage,
         QuitSent |-> FALSE,
         SPFResult |-> "",
         Mailable |-> FALSE,
         Line |-> <<>>])

Init ==
  /\ Server \in Servers
  /\ req = NewRequest
  /\ pc = "greet"
  /\ err = ""
  /\ events = <<>>
  /\ mux = NewServeMux
  /\ last = NoOp

(***************************************************************************)
(* A processor runs on a step state: the request, the events so far, the   *)
(* error it returns, and wf, the number of the write that will fail        *)
(* (0: none does).                                                         *)
(***************************************************************************)
Begin(r, wf) == [req |-> r, ev |-> <<>>, err |-> "", wf |-> wf]

Reply(code, text) ==
  [kind |-> "reply", code |-> code, cont |-> FALSE, text |-> text,
   arg |-> <<>>, num |-> 0]

\* a reply whose text ends with a string of the session
ReplyArg(code, text, arg) == [Reply(code, text) EXCEPT !.arg = arg]

\* a "%d-%s" continuation line of a multi-line reply
ReplyCont(code, text, arg) ==
  [Reply(code, text) EXCEPT !.cont = TRUE, !.arg = arg]

\* TextProto.PrintfLine: the line is written, or the write fails
PrintfLine(st, r) ==
  IF st.wf = 1 THEN [st EXCEPT !.err = "write", !.wf = 0]
  ELSE [st EXCEPT !.ev = Append(@, r),
                  !.wf = IF @ = 0 THEN 0 ELSE @ - 1]

\* successive PrintfLine calls, returning at the first error
RECURSIVE PrintfLines(_, _)
PrintfLines(st, rs) ==
  IF rs = <<>> \/ st.err # "" THEN st
  ELSE PrintfLines(PrintfLine(st, Head(rs)), Tail(rs))

\* something other than a reply that the processor did
Did(st, e) == [st EXCEPT !.ev = Append(@, e)]

(***************************************************************************)
(* The command processors.                                                 *)
(***************************************************************************)
\* STARTTLS advertised whenever TLS is configured
AdvertiseStartTLS_Configured(srv, r) == srv.TLSConfig

\* ehloProcessor's condition for the 250-STARTTLS line
AdvertiseStartTLS(srv, r) == srv.TLSConfig /\ ~r.TLSState

\* AUTH PLAIN advertised whenever an auth callback is configured
AdvertiseAuth_Configured(srv, r) == srv.Auth

\* ehloProcessor's condition for the 250-AUTH PLAIN line
AdvertiseAuth(srv, r) ==
  ((srv.TLSConfig /\ r.TLSState) \/ ~srv.TLSConfig) /\ srv.Auth

\* the lines of the EHLO reply, in the order they are written
EhloBanner(srv, r) ==
     <<ReplyCont(250, "Greets", r.Line[2])>>
  \o (IF AdvertiseStartTLS(srv, r)
        THEN <<ReplyCont(250, "STARTTLS", <<>>)>> ELSE <<>>)
  \o (IF AdvertiseAuth(srv, r)
        THEN <<ReplyCont(250, "AUTH PLAIN", <<>>)>> ELSE <<>>)
  \o <<ReplyCont(250, "PIPELINING", <<>>),
       ReplyCont(250, "SMTPUTF8", <<>>),
       Reply(250, "8BITMIME")>>

\* an EHLO that resets the transaction before it looks at its argument
ehloProcessor_ResetsFirst(st) ==
  IF Len(st.req.Line) < 2
    THEN PrintfLine([st EXCEPT !.req = Reset(st.req)],
                    Reply(501, "Not enough arguments"))
  ELSE LET r == [Reset(st.req) EXCEPT !.HelloHost = st.req.Line[2],
                                      !.HelloRecieved = TRUE]
       IN  PrintfLines([st EXCEPT !.req = r], EhloBanner(Server, r))

\* an EHLO that leaves the transaction as it was
ehloProcessor_NoReset(st) ==
  IF Len(st.req.Line) < 2
    THEN PrintfLine(st, Reply(501, "Not enough arguments"))
  ELSE LET r == [st.req EXCEPT !.HelloHost = st.req.Line[2],
                               !.HelloRecieved = TRUE]
       IN  PrintfLines([st EXCEPT !.req = r], EhloBanner(Server, r))

ehloProcessor(st) ==
  IF Len(st.req.Line) < 2
    THEN PrintfLine(st, Reply(501, "Not enough arguments"))
  ELSE LET r == [Reset(st.req) EXCEPT !.HelloHost = st.req.Line[2],
                                      !.HelloRecieved = TRUE]
       IN  PrintfLines([st EXCEPT !.req = r], EhloBanner(Server, r))

\* the handshake attempted on a session that is already wrapped
MayStartTLS_Configured(srv, r) == srv.TLSConfig

\* starttlsProcessor's guard: the handshake is attempted
MayStartTLS(srv, r) == srv.TLSConfig /\ ~r.TLSState

\* hs: whether the TLS handshake succeeds
starttlsProcessor(st, hs) ==
  IF ~MayStartTLS(Server, st.req)
    THEN IF ~Server.TLSConfig
           THEN PrintfLine(st, Reply(454, "TLS unavailable on the server"))
           ELSE PrintfLine(st, Reply(454, "TLS session already active"))
  ELSE LET s1 == PrintfLine(st, Reply(220, "Ready to start TLS"))
           s2 == Did(s1, [kind |-> "handshake", ok |-> hs])
       IN  IF s1.err # "" THEN s1
           ELSE IF ~hs THEN [s2 EXCEPT !.err = "handshake"]
           ELSE [s2 EXCEPT !.req = Reset([@ EXCEPT !.Conn = "tls",
                                                   !.TLSState = TRUE,
                                                   !.HelloRecieved = FALSE])]

\* a rejection that leaves an earlier login in place
AuthCheck_KeepsUserOnReject(st, ppwd, authok) ==
  IF ~B64Valid(ppwd)
    THEN PrintfLine(st, Reply(501, "Bad base64 encoding"))
  ELSE LET pparts == SplitNul(B64Decode(ppwd))
       IN  IF Len(pparts) # 3
             THEN PrintfLine(st, Reply(501, "Bad base64 encoding"))
           ELSE LET user == BytesToString(pparts[2])
                    s1 == Did(st, [kind |-> "auth", user |-> user,
                                   pass |-> BytesToString(pparts[3]),
                                   ok |-> authok])
                IN  IF authok
                      THEN PrintfLine([s1 EXCEPT !.req.AuthUser = user],
                             Reply(235, "2.7.0 Authentication successful"))
                      ELSE PrintfLine(s1,
                             Reply(535, "5.7.8  Authentication credentials invalid"))

\* the tail of authProcessor, once the PLAIN response ppwd is known
\* authok: whether Server.Auth accepts the credentials
AuthCheck(st, ppwd, authok) ==
  IF ~B64Valid(ppwd)
    THEN PrintfLine(st, Reply(501, "Bad base64 encoding"))
  ELSE LET pparts == SplitNul(B64Decode(ppwd))
       IN  IF Len(pparts) # 3
             THEN PrintfLine(st, Reply(501, "Bad base64 encoding"))
           ELSE LET user == BytesToString(pparts[2])
                    s1 == Did(st, [kind |-> "auth", user |-> user,
                                   pass |-> BytesToString(pparts[3]),
                                   ok |-> authok])
                IN  IF authok
                      THEN PrintfLine([s1 EXCEPT !.req.AuthUser = user],
                             Reply(235, "2.7.0 Authentication successful"))
                      ELSE PrintfLine([s1 EXCEPT !.req.AuthUser = <<>>],
                             Reply(535, "5.7.8  Authentication credentials invalid"))

\* next: the line read after the 334 reply; rdok: whether that read succeeds
authProcessor(st, next, rdok, authok) ==
  LET L == st.req.Line
  IN  IF ~Server.Auth
        THEN PrintfLine(st, Reply(502, "Command not implemented"))
      ELSE IF Len(L) < 2
        THEN PrintfLine(st, Reply(501, "Not enough arguments"))
      ELSE IF Len(L) = 2 /\ L[2] = tPLAIN
        THEN LET s1 == PrintfLine(st, Reply(334, ""))
                 s2 == Did(s1, [kind |-> "readline", ok |-> rdok])
             IN  IF s1.err # "" THEN s1
                 ELSE IF ~rdok THEN [s2 EXCEPT !.err = "read"]
                 ELSE AuthCheck(s2, next, authok)
      ELSE IF Len(L) = 3 /\ L[2] = tPLAIN
        THEN AuthCheck(st, L[3], authok)
      ELSE AuthCheck(st, <<>>, authok)

\* mailProcessor without its test of the login
mailProcessor_NoAuthCheck(st, spfres, mx) ==
  LET L == st.req.Line
  IN  IF st.req.From # <<>>
        THEN PrintfLine(st, Reply(503, "MAIL command already recieved"))
      ELSE IF Len(L) < 2
        THEN PrintfLine(st, Reply(501, "Not enough arguments"))
      ELSE IF ~HasPrefix(L[2], tFROM)
        THEN PrintfLine(st, Reply(501,
               "MAIL command must be immediately succeeded by 'FROM:'"))
      ELSE IF Index(L[2], ":") = 0
              \/ ~emailRegExpMatch(From1(L[2], Index(L[2], ":")))
        THEN PrintfLine(st, Reply(501, "MAIL command contained invalid address"))
      ELSE LET a == TrimSpace(From1(L[2], Index(L[2], ":")))
               from == emailRegExpAddr(a)
               r1 == [st.req EXCEPT !.MailFromReceived = TRUE, !.From = from]
               r2 == IF from # <<>>
                       THEN [r1 EXCEPT !.SPFResult = spfres, !.Mailable = mx]
                       ELSE r1
               s1 == IF from # <<>>
                       THEN Did(st, [kind |-> "lookup",
                                     domain |-> emailRegExpDomain(a),
                                     from |-> from])
                       ELSE st
           IN  PrintfLine([s1 EXCEPT !.req = r2], Reply(250, "Ok"))

\* spfres, mx: what spf.CheckHost and net.LookupMX give for the sender
mailProcessor(st, spfres, mx) ==
  LET L == st.req.Line
  IN  IF Server.Auth /\ st.req.AuthUser = <<>>
        THEN PrintfLine(st, Reply(503, "Authentication needed"))
      ELSE IF st.req.From # <<>>
        THEN PrintfLine(st, Reply(503, "MAIL command already recieved"))
      ELSE IF Len(L) < 2
        THEN PrintfLine(st, Reply(501, "Not enough arguments"))
      ELSE IF ~HasPrefix(L[2], tFROM)
        THEN PrintfLine(st, Reply(501,
               "MAIL command must be immediately succeeded by 'FROM:'"))
      ELSE IF Index(L[2], ":") = 0
              \/ ~emailRegExpMatch(From1(L[2], Index(L[2], ":")))
        THEN PrintfLine(st, Reply(501, "MAIL command contained invalid address"))
      ELSE LET a == TrimSpace(From1(L[2], Index(L[2], ":")))
               from == emailRegExpAddr(a)
               r1 == [st.req EXCEPT !.MailFromReceived = TRUE, !.From = from]
               r2 == IF from # <<>>
                       THEN [r1 EXCEPT !.SPFResult = spfres, !.Mailable = mx]
                       ELSE r1
               s1 == IF from # <<>>
                       THEN Did(st, [kind |-> "lookup",
                                     domain |-> emailRegExpDomain(a),
                                     from |-> from])
                       ELSE st
           IN  PrintfLine([s1 EXCEPT !.req = r2], Reply(250, "Ok"))

\* the sequence check left out
RcptAllowed_Always(r) == TRUE

\* rcptProcessor's sequence check
RcptAllowed(r) == r.MailFromReceived

\* a RCPT that keeps the address the Addressable callback refused
rcptProcessor_AppendsRejected(st, addrok) ==
  LET L == st.req.Line
  IN  IF ~RcptAllowed(st.req)
        THEN PrintfLine(st, Reply(503, "Bad sequence of commands"))
      ELSE IF Len(L) < 2
        THEN PrintfLine(st, Reply(501, "Not enough arguments"))
      ELSE IF ~HasPrefix(L[2], tTO)
        THEN PrintfLine(st, Reply(501,
               "RCPT command must be immediately succeeded by 'TO:'"))
      ELSE IF Index(L[2], ":") = 0
              \/ ~emailRegExpMatch(From1(L[2], Index(L[2], ":")))
        THEN PrintfLine(st, Reply(501, "RCPT command contained invalid address"))
      ELSE LET to == emailRegExpAddr(From1(L[2], Index(L[2], ":")))
               s1 == IF Server.Addressable
                       THEN Did(st, [kind |-> "addressable",
                                     user |-> st.req.AuthUser,
                                     address |-> to, ok |-> addrok])
                       ELSE st
           IN  IF Server.Addressable /\ ~addrok
                 THEN PrintfLine([s1 EXCEPT !.req.To = Append(@, to)],
                                        ReplyArg(501, "no such user - ", to))
                 ELSE PrintfLine([s1 EXCEPT !.req.To = Append(@, to)],
                                 Reply(250, "Ok"))

\* addrok: what Server.Addressable answers for the recipient
rcptProcessor(st, addrok) ==
  LET L == st.req.Line
  IN  IF ~RcptAllowed(st.req)
        THEN PrintfLine(st, Reply(503, "Bad sequence of commands"))
      ELSE IF Len(L) < 2
        THEN PrintfLine(st, Reply(501, "Not enough arguments"))
      ELSE IF ~HasPrefix(L[2], tTO)
        THEN PrintfLine(st, Reply(501,
               "RCPT command must be immediately succeeded by 'TO:'"))
      ELSE IF Index(L[2], ":") = 0
              \/ ~emailRegExpMatch(From1(L[2], Index(L[2], ":")))
        THEN PrintfLine(st, Reply(501, "RCPT command contained invalid address"))
      ELSE LET to == emailRegExpAddr(From1(L[2], Index(L[2], ":")))
               s1 == IF Server.Addressable
                       THEN Did(st, [kind |-> "addressable",
                                     user |-> st.req.AuthUser,
                                     address |-> to, ok |-> addrok])
                       ELSE st
           IN  IF Server.Addressable /\ ~addrok
                 THEN PrintfLine(s1, ReplyArg(501, "no such user - ", to))
                 ELSE PrintfLine([s1 EXCEPT !.req.To = Append(@, to)],
                                 Reply(250, "Ok"))

\* the sequence check without its test of the recipient list
DataAllowed_NoRcptCheck(r) == r.MailFromReceived

\* dataProcessor's sequence check
DataAllowed(r) == Len(r.To) # 0 /\ r.MailFromReceived

\* the handler invoked after the transaction was reset
DataDeliver_ResetFirst(st, parsed, herr) ==
  IF ~parsed.ok
    THEN PrintfLine([st EXCEPT !.req.Message = NilMessage],
           [Reply(503, "error parsing the DATA, it may exceeded the max size of %d bytes")
              EXCEPT !.num = Server.MaxBodySize])
  ELSE LET r1 == Reset([st.req EXCEPT !.Message = parsed.msg])
           s1 == Did([st EXCEPT !.req = r1],
                     [kind |-> "handler", req |-> r1, result |-> herr])
       IN  IF herr # ""
             THEN PrintfLine(s1, Reply(450, herr))
             ELSE PrintfLine(s1, Reply(250, "OK"))

\* a handler error answered without resetting the transaction
DataDeliver_NoResetOnError(st, parsed, herr) ==
  IF ~parsed.ok
    THEN PrintfLine([st EXCEPT !.req.Message = NilMessage],
           [Reply(503, "error parsing the DATA, it may exceeded the max size of %d bytes")
              EXCEPT !.num = Server.MaxBodySize])
  ELSE LET r1 == [st.req EXCEPT !.Message = parsed.msg]
           s1 == Did([st EXCEPT !.req = r1],
                     [kind |-> "handler", req |-> r1, result |-> herr])
       IN  IF herr # ""
             THEN PrintfLine(s1, Reply(450, herr))
             ELSE PrintfLine([s1 EXCEPT !.req = Reset(r1)], Reply(250, "OK"))

\* what dataProcessor does after reading the message, given whether the
\* read and parse succeeded; herr: the handler's error text, "" for none
DataDeliver(st, parsed, herr) ==
  IF ~parsed.ok
    THEN PrintfLine([st EXCEPT !.req.Message = NilMessage],
           [Reply(503, "error parsing the DATA, it may exceeded the max size of %d bytes")
              EXCEPT !.num = Server.MaxBodySize])
  ELSE LET r1 == [st.req EXCEPT !.Message = parsed.msg]
           s1 == Did([st EXCEPT !.req = r1],
                     [kind |-> "handler", req |-> r1, result |-> herr])
       IN  IF herr # ""
             THEN PrintfLine([s1 EXCEPT !.req = Reset(r1)], Reply(450, herr))
             ELSE PrintfLine([s1 EXCEPT !.req = Reset(r1)], Reply(250, "OK"))

\* data: the payload the dot reader yields; ioerr: the connection fails
\* while the message is read
dataProcessor(st, data, ioerr, herr) ==
  IF ~DataAllowed(st.req)
    THEN PrintfLine(st, Reply(503, "Bad sequence of commands"))
  ELSE LET s1 == PrintfLine(st, Reply(354, "End data with <CR><LF>.<CR><LF>"))
           s2 == Did(s1, [kind |-> "readbody", data |-> data, ioerr |-> ioerr])
           parsed == IF ioerr THEN [ok |-> FALSE, msg |-> NilMessage]
                     ELSE ReadMessage(LimitDataSize(data, Server.MaxBodySize))
       IN  IF s1.err # "" THEN s1
           ELSE DataDeliver(s2, parsed, herr)

rsetProcessor(st) ==
  PrintfLine([st EXCEPT !.req = Reset(@)], Reply(250, "Ok"))

vrfyProcessor(st) == PrintfLine(st, Reply(250, "OK"))

expnProcessor(st) == PrintfLine(st, Reply(250, "OK"))

helpProcessor(st) == PrintfLine(st, Reply(250, "OK"))

noopProcessor(st) == PrintfLine(st, Reply(250, "OK"))

\* a QUIT that forgets to set the flag
quitProcessor_NoFlag(st) == PrintfLine(st, Reply(221, "OK"))

quitProcessor(st) ==
  PrintfLine([st EXCEPT !.req.QuitSent = TRUE], Reply(221, "OK"))

(***************************************************************************)
(* Request.Serve and Request.Process.                                      *)
(***************************************************************************)
\* the errors a handler returns; "" is nil
HandlerErrors == {"", "mailbox unavailable"}

\* what the lookups of MAIL give for the sender's domain: the SPF result, and
\* whether the domain has an MX record
Lookups == {[spf |-> "Pass", mx |-> TRUE]}

\* what reading the DATA body gives: a payload, or a failed connection
BodyReads ==
  {[data |-> d, ioerr |-> FALSE] : d \in Payloads}
    \cup {[data |-> <<>>, ioerr |-> TRUE]}

\* the verb left as it was typed
LineOf_AsTyped(raw) == Split(raw)

\* req.Line as Process leaves it: split on spaces, the verb in upper case
LineOf(raw) == [Split(raw) EXCEPT ![1] = ToUpper(@)]

\* the processor Process finds for a line, "" when the verb has no entry
Lookup(raw) ==
  IF LineOf(raw)[1] \in DOMAIN DefaultProcessors
    THEN DefaultProcessors[LineOf(raw)[1]]
    ELSE ""

\* Process's view of each client line: the tokens and the processor found
Parsed == [raw \in ClientLines |-> [Line |-> LineOf(raw), proc |-> Lookup(raw)]]

\* the client lines that Process hands to processor p ("": to none)
LinesFor ==
  [p \in {Parsed[raw].proc : raw \in ClientLines} |->
     {raw \in ClientLines : Parsed[raw].proc = p}]

\* the step state a processor starts from
Enter(raw, wf) == Begin([req EXCEPT !.Line = Parsed[raw].Line], wf)

\* a loop that goes on after an error
Return_IgnoresError(st) ==
  /\ req' = st.req
  /\ events' = st.ev
  /\ err' = st.err
  /\ pc' = IF st.req.QuitSent THEN "defer" ELSE "loop"
  /\ Server' = [Server EXCEPT !.Processors = "DefaultProcessors"]
  /\ UNCHANGED <<mux, last>>

\* Process returns to Serve's loop, which goes on, or ends: Serve returns
\* and its deferred function is due
Return(st) ==
  /\ req' = st.req
  /\ events' = st.ev
  /\ err' = st.err
  /\ pc' = IF st.err # "" \/ st.req.QuitSent THEN "defer" ELSE "loop"
  /\ Server' = [Server EXCEPT !.Processors = "DefaultProcessors"]
  /\ UNCHANGED <<mux, last>>

\* Serve writes the greeting
Greet ==
  /\ pc = "greet"
  /\ \E wf \in 0..1 :
       LET st == PrintfLine(Begin(req, wf),
                            ReplyArg(220, Server.Name, <<"E","S","M","T","P">>))
       IN  /\ events' = st.ev
           /\ err' = st.err
           /\ pc' = IF st.err # "" THEN "defer" ELSE "loop"
  /\ UNCHANGED <<Server, req, mux, last>>

\* TextProto.ReadLine fails: Process returns the error and Serve closes
ReadError ==
  /\ pc = "loop"
  /\ pc' = "defer"
  /\ err' = "read"
  /\ events' = <<>>
  /\ UNCHANGED <<Server, req, mux, last>>

Unrecognized ==
  /\ pc = "loop"
  /\ \E raw \in LinesFor[""], wf \in 0..1 :
       Return(PrintfLine(Enter(raw, wf),
              ReplyArg(500, "Command not recognized", Parsed[raw].Line[1])))

Ehlo ==
  /\ pc = "loop"
  /\ \E raw \in LinesFor["ehloProcessor"] :
       \* any one of the lines the reply has can be the write that fails
       \E wf \in 0..Len(ehloProcessor(Enter(raw, 0)).ev) :
         Return(ehloProcessor(Enter(raw, wf)))

Starttls ==
  /\ pc = "loop"
  /\ \E raw \in LinesFor["starttlsProcessor"], wf \in 0..1, hs \in BOOLEAN :
       Return(starttlsProcessor(Enter(raw, wf), hs))

Auth ==
  /\ pc = "loop"
  /\ \E raw \in LinesFor["authProcessor"], wf \in 0..2 :
       \* a second line is read only after "AUTH PLAIN", and the callback is
       \* called only when there is one
       \E rd \in IF Server.Auth /\ Parsed[raw].Line = <<vAUTH, tPLAIN>>
                   THEN AuthReads ELSE {[line |-> <<>>, ok |-> TRUE]},
          authok \in IF Server.Auth THEN BOOLEAN ELSE {FALSE} :
         Return(authProcessor(Enter(raw, wf), rd.line, rd.ok, authok))

Mail ==
  /\ pc = "loop"
  /\ \E raw \in LinesFor["mailProcessor"], wf \in 0..1, dns \in Lookups :
       Return(mailProcessor(Enter(raw, wf), dns.spf, dns.mx))

Rcpt ==
  /\ pc = "loop"
  /\ \E raw \in LinesFor["rcptProcessor"], wf \in 0..1,
        addrok \in IF Server.Addressable THEN BOOLEAN ELSE {TRUE} :
       LET st == rcptProcessor(Enter(raw, wf), addrok)
       IN  /\ Len(st.req.To) <= MaxRcpt
           /\ Return(st)

Data ==
  /\ pc = "loop"
  /\ \E raw \in LinesFor["dataProcessor"], wf \in 0..2, herr \in HandlerErrors :
       \* a body is read only when the sequence check passes
       \E body \in IF DataAllowed(req)
                     THEN BodyReads ELSE {[data |-> <<>>, ioerr |-> FALSE]} :
         Return(dataProcessor(Enter(raw, wf), body.data, body.ioerr, herr))

Rset ==
  /\ pc = "loop"
  /\ \E raw \in LinesFor["rsetProcessor"], wf \in 0..1 :
       Return(rsetProcessor(Enter(raw, wf)))

Vrfy ==
  /\ pc = "loop"
  /\ \E raw \in LinesFor["vrfyProcessor"], wf \in 0..1 :
       Return(vrfyProcessor(Enter(raw, wf)))

Expn ==
  /\ pc = "loop"
  /\ \E raw \in LinesFor["expnProcessor"], wf \in 0..1 :
       Return(expnProcessor(Enter(raw, wf)))

Help ==
  /\ pc = "loop"
  /\ \E raw \in LinesFor["helpProcessor"], wf \in 0..1 :
       Return(helpProcessor(Enter(raw, wf)))

Noop ==
  /\ pc = "loop"
  /\ \E raw \in LinesFor["noopProcessor"], wf \in 0..1 :
       Return(noopProcessor(Enter(raw, wf)))

Quit ==
  /\ pc = "loop"
  /\ \E raw \in LinesFor["quitProcessor"], wf \in 0..1 :
       Return(quitProcessor(Enter(raw, wf)))

\* Serve's deferred function: req.TextProto.Close() ...
CloseTextProto ==
  /\ pc = "defer"
  /\ pc' = "textproto-closed"
  /\ UNCHANGED <<Server, req, err, events, mux, last>>

\* ... and then req.Conn.Close()
CloseConn ==
  /\ pc = "textproto-closed"
  /\ pc' = "closed"
  /\ UNCHANGED <<Server, req, err, events, mux, last>>

Next ==
  \/ Greet
  \/ ReadError
  \/ Unrecognized
  \/ Ehlo
  \/ Starttls
  \/ Auth
  \/ Mail
  \/ Rcpt
  \/ Data
  \/ Rset
  \/ Vrfy
  \/ Expn
  \/ Help
  \/ Noop
  \/ Quit
  \/ CloseTextProto
  \/ CloseConn

Spec == Init /\ [][Next]_vars

\* Serve's deferred function runs when Serve returns, and neither Close waits
\* for the peer
FairSpec == Spec /\ WF_vars(CloseTextProto) /\ WF_vars(CloseConn)

(***************************************************************************)
(* The processors of the variant that has no MailFromReceived: MAIL, RCPT  *)
(* and DATA differ, the other processors and the dispatcher are the same.  *)
(***************************************************************************)
\* spfres: the outcome of spf.CheckHost; valid: that of mailck.Check
mailProcessorOld(st, spfres, valid) ==
  LET L == st.req.Line
  IN  IF Server.Auth /\ st.req.AuthUser = <<>>
        THEN PrintfLine(st, Reply(503, "Authentication needed"))
      ELSE IF st.req.From # <<>>
        THEN PrintfLine(st, Reply(503, "MAIL command already recieved"))
      ELSE IF Len(L) < 2
        THEN PrintfLine(st, Reply(501, "Not enough arguments"))
      ELSE IF ~HasPrefix(L[2], tFROM)
        THEN PrintfLine(st, Reply(501,
               "MAIL command must be immediately succeeded by 'FROM:'"))
      ELSE IF Index(L[2], ":") = 0
              \/ ~emailRegExpMatch(From1(L[2], Index(L[2], ":")))
        THEN PrintfLine(st, Reply(501, "MAIL command contained invalid address"))
      ELSE LET from == emailRegExpAddr(From1(L[2], Index(L[2], ":")))
               r1 == [st.req EXCEPT !.From = from, !.SPFResult = spfres,
                                    !.MailValidation = valid]
               s1 == Did(st, [kind |-> "lookup",
                              \* strings.Split(from, "@")[0]
                              domain |-> IF Index(from, "@") = 0 THEN from
                                         ELSE SubSeq(from, 1,
                                                     Index(from, "@") - 1),
                              from |-> from])
           IN  PrintfLine([s1 EXCEPT !.req = r1], Reply(250, "Ok"))

rcptProcessorOld(st, addrok) ==
  LET L == st.req.Line
  IN  IF st.req.From = <<>>
        THEN PrintfLine(st, Reply(503, "Bad sequence of commands"))
      ELSE IF Len(L) < 2
        THEN PrintfLine(st, Reply(501, "Not enough arguments"))
      ELSE IF ~HasPrefix(L[2], tTO)
        THEN PrintfLine(st, Reply(501,
               "RCPT command must be immediately succeeded by 'TO:'"))
      ELSE IF Index(L[2], ":") = 0
              \/ ~emailRegExpMatch(From1(L[2], Index(L[2], ":")))
        THEN PrintfLine(st, Reply(501, "RCPT command contained invalid address"))
      ELSE LET to == emailRegExpAddr(From1(L[2], Index(L[2], ":")))
               s1 == IF Server.Addressable
                       THEN Did(st, [kind |-> "addressable",
                                     user |-> st.req.AuthUser,
                                     address |-> to, ok |-> addrok])
                       ELSE st
           IN  IF Server.Addressable /\ ~addrok
                 THEN PrintfLine(s1, ReplyArg(501, "no such user - ", to))
                 ELSE PrintfLine([s1 EXCEPT !.req.To = Append(@, to)],
                                 Reply(250, "Ok"))

\* the message is the capped reader itself; nothing is parsed
dataProcessorOld(st, data, herr) ==
  IF st.req.From = <<>> \/ Len(st.req.To) = 0
    THEN PrintfLine(st, Reply(503, "Bad sequence of commands"))
  ELSE LET s1 == PrintfLine(st, Reply(354, "End data with <CR><LF>.<CR><LF>"))
           r1 == [st.req EXCEPT !.Message =
                    [present |-> TRUE, Header |-> <<>>,
                     Body |-> LimitDataSize(data, Server.MaxBodySize)]]
           s2 == Did([s1 EXCEPT !.req = r1],
                     [kind |-> "handler", req |-> r1, result |-> herr])
       IN  IF s1.err # "" THEN s1
           ELSE IF herr # ""
             THEN PrintfLine([s2 EXCEPT !.req = Reset(r1)], Reply(450, herr))
             ELSE PrintfLine([s2 EXCEPT !.req = Reset(r1)], Reply(250, "OK"))

MailOld ==
  /\ pc = "loop"
  /\ \E raw \in LinesFor["mailProcessor"], wf \in 0..1, chk \in Lookups :
       Return(mailProcessorOld(Enter(raw, wf), chk.spf, chk.mx))

RcptOld ==
  /\ pc = "loop"
  /\ \E raw \in LinesFor["rcptProcessor"], wf \in 0..1,
        addrok \in IF Server.Addressable THEN BOOLEAN ELSE {TRUE} :
       LET st == rcptProcessorOld(Enter(raw, wf), addrok)
       IN  /\ Len(st.req.To) <= MaxRcpt
           /\ Return(st)

DataOld ==
  /\ pc = "loop"
  /\ \E raw \in LinesFor["dataProcessor"], wf \in 0..2, herr \in HandlerErrors :
       \E data \in IF req.From # <<>> /\ Len(req.To) # 0
                     THEN Payloads ELSE {<<>>} :
         Return(dataProcessorOld(Enter(raw, wf), data, herr))

\* the session of that variant also records mailck's verdict
OldInit ==
  /\ Server \in Servers
  /\ req = NewRequest @@ [MailValidation |-> FALSE]
  /\ pc = "greet"
  /\ err = ""
  /\ events = <<>>
  /\ mux = NewServeMux
  /\ last = NoOp

OldNext ==
  \/ Greet
  \/ ReadError
  \/ Unrecognized
  \/ Ehlo
  \/ Starttls
  \/ Auth
  \/ MailOld
  \/ RcptOld
  \/ DataOld
  \/ Rset
  \/ Vrfy
  \/ Expn
  \/ Help
  \/ Noop
  \/ Quit
  \/ CloseTextProto
  \/ CloseConn

OldSpec == OldInit /\ [][OldNext]_vars

\* a Server with nothing configured, for the runs that have no session
ZeroServer ==
  [Name |-> "localhost", TLSConfig |-> FALSE, Auth |-> FALSE,
   Addressable |-> FALSE, Processors |-> "nil", MaxBodySize |-> 0]

\* the session is not part of the run
NoSession ==
  /\ Server = ZeroServer
  /\ req = NewRequest
  /\ pc = "greet"
  /\ err = ""
  /\ events = <<>>

(***************************************************************************)
(* Process's choice of a processor, on every spelling of every verb.       *)
(***************************************************************************)
\* the verbs of the processor table, and one that is not in it
Verbs == DOMAIN DefaultProcessors \cup {vXYZZY}

\* what follows the verb on the line
Arguments == {<<>>, <<" ">> \o tMe, <<" ">> \o vQUIT}

\* the verb k typed with the letters at the positions in S in lower case
Spell(k, S) ==
  [i \in 1..Len(k) |->
     IF i \in S THEN LowerAlpha[CHOOSE j \in 1..26 : UpperAlpha[j] = k[i]]
     ELSE k[i]]

\* the lines: every spelling of every verb, with every argument
Spellings ==
  {Spell(k, S) \o a : <<k, S>> \in UNION {{k} \X SUBSET (1..Len(k)) : k \in Verbs},
                      a \in Arguments}

\* Process from the Split on: the tokens, the processor called ("": none)
\* and what Process itself replies
LookupOnly(raw) ==
  [op |-> "Process",
   line |-> raw,
   Line |-> LineOf(raw),
   proc |-> Lookup(raw),
   reply |-> IF Lookup(raw) = ""
               THEN <<ReplyArg(500, "Command not recognized", LineOf(raw)[1])>>
               ELSE <<>>]

\* Process on the line that was read
ProcessLine ==
  /\ last.op = "ReadLine"
  /\ last' = LookupOnly(last.line)
  /\ UNCHANGED <<Server, req, pc, err, events, mux>>

\* TextProto.ReadLine has returned one of the lines
DispatchInit ==
  /\ NoSession
  /\ mux = NewServeMux
  /\ last \in {[op |-> "ReadLine", line |-> raw] : raw \in Spellings}

DispatchNext == ProcessLine

DispatchSpec == DispatchInit /\ [][DispatchNext]_vars

(***************************************************************************)
(* The muxer on its own: registrations through Handle, in any order, and   *)
(* envelopes dispatched by ServeSMTP.                                      *)
(***************************************************************************)
PatAB == <<"a","@","b">>
PatStarB == <<"*","@","b">>
PatAStar == <<"a","@","*">>
PatStarStar == <<"*","@","*">>
\* patterns whose local part is not in canonical form: "a" is the canonical
\* local of both
PatUpperAB == <<"A","@","b">>
PatTagAB == <<"a",".","+","t","@","b">>
\* a pattern without a local part, and one without an "@"
PatNoLocalB == <<"@","b">>
PatNoAt == <<"a">>

\* the calls of Handle a program can make
Registrations ==
  { [pattern |-> PatAB, handler |-> "H1"],
    [pattern |-> PatStarB, handler |-> "H2"],
    [pattern |-> PatAStar, handler |-> "H3"],
    [pattern |-> PatStarStar, handler |-> "H4"],
    [pattern |-> PatAB, handler |-> "H2"],
    [pattern |-> PatUpperAB, handler |-> "H1"],
    [pattern |-> PatUpperAB, handler |-> "H2"],
    [pattern |-> PatTagAB, handler |-> "H3"],
    [pattern |-> PatNoLocalB, handler |-> "H3"],
    [pattern |-> PatNoAt, handler |-> "H1"] }

\* the recipients of the envelopes (Envelope.MessageTo)
Recipients ==
  { <<"a","@","b">>, <<"c","@","b">>, <<"a","@","c">>, <<"c","@","c">>,
    <<"A","@","b">>, <<"a",".","+","t","@","b">>, <<"a">> }

\* log.Fatal has ended the process
Exited == last.op = "Handle" /\ last.fatal

MuxHandle ==
  /\ ~Exited
  /\ \E r \in Registrations :
       LET res == Handle(mux, r.pattern, r.handler)
       IN  /\ mux' = res.mux
           /\ last' = [op |-> "Handle", pattern |-> r.pattern,
                       handler |-> r.handler, fatal |-> res.fatal]
  /\ UNCHANGED <<Server, req, pc, err, events>>

MuxServeSMTP ==
  /\ ~Exited
  /\ \E to \in Recipients, herr \in HandlerErrors :
       LET res == ServeSMTP(mux, to, herr)
       IN  last' = [op |-> "ServeSMTP", to |-> to,
                    called |-> res.called, err |-> res.err]
  /\ UNCHANGED <<Server, req, pc, err, events, mux>>

MuxInit == NoSession /\ mux = NewServeMux /\ last = NoOp

MuxNext == MuxHandle \/ MuxServeSMTP

MuxSpec == MuxInit /\ [][MuxNext]_vars

(***************************************************************************)
(* The address functions on their own: CanonicalizeEmail and SplitAddress  *)
(* applied to every short string.                                          *)
(***************************************************************************)
\* the characters that CanonicalizeEmail or SplitAddress treat differently
LocalChars == {"a", "A", ".", "+", " ", "@"}
DomainChars == {"a", "@"}

\* the strings over an alphabet A of length up to n
StringsUpTo(A, n) == UNION {[1..k -> A] : k \in 0..n}

\* the caller holds a local part l and a domain d
AddrInit ==
  /\ NoSession
  /\ mux = NewServeMux
  /\ last \in {[op |-> "args", l |-> l, d |-> d] :
                 l \in StringsUpTo(LocalChars, MaxLocal),
                 d \in StringsUpTo(DomainChars, MaxDomain)}

\* CanonicalizeEmail(l)
CallCanonicalizeEmail ==
  /\ last.op = "args"
  /\ last' = [op |-> "CanonicalizeEmail", l |-> last.l, d |-> last.d,
              ret |-> CanonicalizeEmail(last.l)]
  /\ UNCHANGED <<Server, req, pc, err, events, mux>>

\* SplitAddress(l + "@" + d)
CallSplitJoined ==
  /\ last.op = "args"
  /\ last' = [op |-> "SplitAddress", l |-> last.l, d |-> last.d,
              address |-> last.l \o <<"@">> \o last.d,
              ret |-> SplitAddress(last.l \o <<"@">> \o last.d)]
  /\ UNCHANGED <<Server, req, pc, err, events, mux>>

\* SplitAddress(l), of a string that was not joined from two parts
CallSplitPlain ==
  /\ last.op = "args"
  /\ last' = [op |-> "SplitAddress", l |-> last.l, d |-> <<>>,
              address |-> last.l,
              ret |-> SplitAddress(last.l)]
  /\ UNCHANGED <<Server, req, pc, err, events, mux>>

AddrNext == CallCanonicalizeEmail \/ CallSplitJoined \/ CallSplitPlain

AddrSpec == AddrInit /\ [][AddrNext]_vars

(***************************************************************************)
(* The session of the variant with the per-recipient fan-out: conn.serve   *)
(* and conn.readCommand. req is the conn. The client of this specification *)
(* sends HELO, MAIL, RCPT, DATA, RSET, QUIT and verbs the switch does not  *)
(* know.                                                                   *)
(***************************************************************************)
\* that variant's emailRegExp, ^<((\S+)@(\S+\.\S+))>$
connRegExpMatch(s) ==
  /\ Len(s) >= 2
  /\ s[1] = "<"
  /\ s[Len(s)] = ">"
  /\ \A i \in 1..Len(Inner(s)) : Inner(s)[i] \notin Whitespace
  /\ \E i \in AtSplits(Inner(s)) :
       \E j \in (i + 2)..(Len(Inner(s)) - 1) : Inner(s)[j] = "."

AddrDotA == <<"a","@","x",".","z">>
AddrDotB == <<"b","@","y",".","z">>
AddrDotC == <<"c","@","y",".","z">>

ConnLines ==
  { Join(<<vHELO, tMe>>), vHELO,
    Join(<<vMAIL, tFROM \o Angle(AddrDotA)>>),
    Join(<<vMAIL, tFROM \o Angle(<<>>)>>),
    Join(<<vRCPT, tTO \o Angle(AddrDotB)>>),
    Join(<<vRCPT, tTO \o Angle(AddrDotC)>>),
    Join(<<vRCPT, tTO \o Angle(AddrB)>>),
    vRCPT, vDATA, vRSET, vQUIT, Lower(vQUIT), Join(<<vXYZZY, tFoo>>) }

\* the lines whose first word, as typed, is the verb v
ConnLinesOf(v) == {raw \in ConnLines : Split(raw)[1] = v}

\* the bodies ReadDotBytes returns
ConnBodies == {MsgHeader, MsgBody}

resetSession(c) ==
  [c EXCEPT !.mailFrom = <<>>, !.mailTo = <<>>,
            !.mailData = [present |-> FALSE, bytes |-> <<>>]]

newConn ==
  resetSession([remoteAddr |-> "peer",
                tlsState |-> FALSE,
                fromAgent |-> <<>>,
                user |-> <<>>,
                mailFrom |-> <<>>,
                mailTo |-> <<>>,
                mailData |-> [present |-> FALSE, bytes |-> <<>>],
                helloRecieved |-> FALSE,
                quitSent |-> FALSE,
                parts |-> <<>>])

\* the Envelope handed to the handler for the recipient v
Envelope(c, v) ==
  [FromAgent |-> c.fromAgent, RemoteAddr |-> c.remoteAddr, User |-> c.user,
   MessageFrom |-> c.mailFrom, MessageTo |-> v, MessageData |-> c.mailData.bytes]

\* err after "for _, v := range c.mailTo { err = ...ServeSMTP(...) }": every
\* call overwrites err, so the last answer is left
RangeErr(results) ==
  IF results = <<>> THEN "" ELSE results[Len(results)]

\* the calls of that loop, in order
RECURSIVE RangeCalls(_, _, _)
RangeCalls(c, tos, results) ==
  IF tos = <<>> THEN <<>>
  ELSE <<[kind |-> "handler", env |-> Envelope(c, Head(tos)),
          result |-> Head(results)]>>
       \o RangeCalls(c, Tail(tos), Tail(results))

connHelo(st) ==
  LET parts == st.req.parts
  IN  IF Len(parts) < 2
        THEN PrintfLine(st, Reply(501, "Not enough arguments"))
        ELSE PrintfLine([st EXCEPT !.req =
                           [resetSession([st.req EXCEPT !.fromAgent = parts[2]])
                              EXCEPT !.helloRecieved = TRUE]],
                        ReplyArg(250, "Hello", parts[2]))

connMail(st) ==
  LET parts == st.req.parts
  IN  IF st.req.mailFrom # <<>>
        THEN PrintfLine(st, Reply(503, "MAIL command already recieved"))
      ELSE IF Len(parts) < 2
        THEN PrintfLine(st, Reply(501, "Not enough arguments"))
      ELSE IF ~HasPrefix(parts[2], tFROM)
        THEN PrintfLine(st, Reply(501,
               "MAIL command must be immediately succeeded by 'FROM:'"))
      ELSE IF Index(parts[2], ":") = 0
              \/ ~connRegExpMatch(From1(parts[2], Index(parts[2], ":")))
        THEN PrintfLine(st, Reply(501, "MAIL command contained invalid address"))
      ELSE PrintfLine([st EXCEPT !.req.mailFrom =
                         Inner(From1(parts[2], Index(parts[2], ":")))],
                      Reply(250, "Ok"))

connRcpt(st, addrok) ==
  LET parts == st.req.parts
  IN  IF st.req.mailFrom = <<>>
        THEN PrintfLine(st, Reply(503, "Bad sequence of commands"))
      ELSE IF Len(parts) < 2
        THEN PrintfLine(st, Reply(501, "Not enough arguments"))
      ELSE IF ~HasPrefix(parts[2], tTO)
        THEN PrintfLine(st, Reply(501,
               "RCPT command must be immediately succeeded by 'TO:'"))
      ELSE IF Index(parts[2], ":") = 0
              \/ ~connRegExpMatch(From1(parts[2], Index(parts[2], ":")))
        THEN PrintfLine(st, Reply(501, "RCPT command contained invalid address"))
      ELSE LET to == Inner(From1(parts[2], Index(parts[2], ":")))
               s1 == IF Server.Addressable
                       THEN Did(st, [kind |-> "addressable",
                                     user |-> st.req.user,
                                     address |-> to, ok |-> addrok])
                       ELSE st
           IN  IF Server.Addressable /\ ~addrok
                 THEN PrintfLine(s1, ReplyArg(501, "no such user - ", to))
                 ELSE PrintfLine([s1 EXCEPT !.req.mailTo = Append(@, to)],
                                 Reply(250, "Ok"))

\* b: the bytes ReadDotBytes returns; ioerr: it fails; results: what the
\* handler returns for each recipient in turn
connData(st, b, ioerr, results) ==
  IF st.req.mailFrom = <<>> \/ Len(st.req.mailTo) = 0
    THEN PrintfLine(st, Reply(503, "Bad sequence of commands"))
  ELSE LET s1 == PrintfLine(st, Reply(354, "End data with <CR><LF>.<CR><LF>"))
           s2 == Did(s1, [kind |-> "readbody", data |-> b, ioerr |-> ioerr])
           c1 == [st.req EXCEPT !.mailData = [present |-> TRUE, bytes |-> b]]
           s3 == [s2 EXCEPT !.req = c1,
                            !.ev = @ \o RangeCalls(c1, c1.mailTo, results)]
       IN  IF s1.err # "" THEN s1
           ELSE IF ioerr THEN [s2 EXCEPT !.err = "read"]
           ELSE IF RangeErr(results) # ""
             THEN PrintfLine([s3 EXCEPT !.req = resetSession(c1)],
                             Reply(450, "Mailbox unavailable"))
             ELSE PrintfLine([s3 EXCEPT !.req = resetSession(c1)],
                             Reply(250, "OK"))

connRset(st) ==
  PrintfLine([st EXCEPT !.req = resetSession(st.req)], Reply(250, "Ok"))

connQuit(st) ==
  PrintfLine([st EXCEPT !.req.quitSent = TRUE], Reply(221, "OK"))

connDefault(st) == PrintfLine(st, Reply(500, "Command not recognized"))

\* readCommand has read the line raw
ConnEnter(raw, wf) == Begin([req EXCEPT !.parts = Split(raw)], wf)

\* readCommand returns to serve's loop, which goes on or ends
ConnReturn(st) ==
  /\ req' = st.req
  /\ events' = st.ev
  /\ err' = st.err
  /\ pc' = IF st.err # "" \/ st.req.quitSent THEN "closing" ELSE "loop"
  /\ UNCHANGED <<Server, mux, last>>

ConnInit ==
  /\ Server \in {srv \in Servers : srv.Processors = "nil"}
  /\ req = newConn
  /\ pc = "greet"
  /\ err = ""
  /\ events = <<>>
  /\ mux = NewServeMux
  /\ last = NoOp

\* serve writes the greeting; it returns at once when the write fails
ConnGreet ==
  /\ pc = "greet"
  /\ \E wf \in 0..1 :
       LET st == PrintfLine(Begin(req, wf),
                            [Reply(220, "ESMTP") EXCEPT !.arg = Server.Name])
       IN  /\ events' = st.ev
           /\ err' = st.err
           /\ pc' = IF st.err # "" THEN "returned" ELSE "loop"
  /\ UNCHANGED <<Server, req, mux, last>>

ConnReadError ==
  /\ pc = "loop"
  /\ pc' = "closing"
  /\ err' = "read"
  /\ events' = <<>>
  /\ UNCHANGED <<Server, req, mux, last>>

ConnHelo ==
  /\ pc = "loop"
  /\ \E raw \in ConnLinesOf(vHELO), wf \in 0..1 :
       ConnReturn(connHelo(ConnEnter(raw, wf)))

ConnMail ==
  /\ pc = "loop"
  /\ \E raw \in ConnLinesOf(vMAIL), wf \in 0..1 :
       ConnReturn(connMail(ConnEnter(raw, wf)))

ConnRcpt ==
  /\ pc = "loop"
  /\ \E raw \in ConnLinesOf(vRCPT), wf \in 0..1,
        addrok \in IF Server.Addressable THEN BOOLEAN ELSE {TRUE} :
       LET st == connRcpt(ConnEnter(raw, wf), addrok)
       IN  /\ Len(st.req.mailTo) <= MaxRcpt
           /\ ConnReturn(st)

ConnData ==
  /\ pc = "loop"
  /\ \E raw \in ConnLinesOf(vDATA), wf \in 0..2 :
       IF req.mailFrom = <<>> \/ Len(req.mailTo) = 0
         THEN ConnReturn(connData(ConnEnter(raw, wf), <<>>, FALSE, <<>>))
         ELSE \/ \E b \in ConnBodies,
                    results \in [1..Len(req.mailTo) -> HandlerErrors] :
                   ConnReturn(connData(ConnEnter(raw, wf), b, FALSE, results))
              \/ ConnReturn(connData(ConnEnter(raw, wf), <<>>, TRUE, <<>>))

ConnRset ==
  /\ pc = "loop"
  /\ \E raw \in ConnLinesOf(vRSET), wf \in 0..1 :
       ConnReturn(connRset(ConnEnter(raw, wf)))

ConnQuit ==
  /\ pc = "loop"
  /\ \E raw \in ConnLinesOf(vQUIT), wf \in 0..1 :
       ConnReturn(connQuit(ConnEnter(raw, wf)))

ConnDefault ==
  /\ pc = "loop"
  /\ \E raw \in ConnLines \ UNION {ConnLinesOf(v) :
                 v \in {vHELO, vMAIL, vRCPT, vDATA, vRSET, vQUIT}},
        wf \in 0..1 :
       ConnReturn(connDefault(ConnEnter(raw, wf)))

\* serve: c.text.Close() and c.rwc.Close()
ConnClose ==
  /\ pc = "closing"
  /\ pc' = "closed"
  /\ UNCHANGED <<Server, req, err, events, mux, last>>

ConnNext ==
  \/ ConnGreet
  \/ ConnReadError
  \/ ConnHelo
  \/ ConnMail
  \/ ConnRcpt
  \/ ConnData
  \/ ConnRset
  \/ ConnQuit
  \/ ConnDefault
  \/ ConnClose

ConnSpec == ConnInit /\ [][ConnNext]_vars

(***************************************************************************)
(* Sessions served concurrently: Server.Serve starts one goroutine per     *)
(* accepted connection, and every one of them holds the same *Server.      *)
(* Only the accesses of Request.Process to Server.Processors are steps     *)
(* here; pc and req are per session, and last is the latest access.        *)
(* The goroutines share no lock and no channel, so accesses of different   *)
(* sessions are not ordered by happens-before.                             *)
(***************************************************************************)
Sessions == 1..NumSessions

\* what a read of Server.Processors by session s may observe. A read that
\* races with the write of another session may observe that write or the
\* value from before it; a session's own write hides the older value.
Observable(s) ==
  IF Server.Processors = "nil" THEN {"nil"}
  ELSE IF req[s].wrote THEN {"DefaultProcessors"}
  ELSE IF \E t \in Sessions : req[t].wrote THEN {"nil", "DefaultProcessors"}
  ELSE {"DefaultProcessors"}

ServingInit ==
  /\ Server \in Servers
  /\ req = [s \in Sessions |-> [left |-> MaxLines, wrote |-> FALSE]]
  /\ pc = [s \in Sessions |-> "Accept"]
  /\ err = ""
  /\ events = <<>>
  /\ mux = NewServeMux
  /\ last = NoOp

\* Serve: NewRequest and go c.Serve()
Spawn(s) ==
  /\ pc[s] = "Accept"
  /\ pc' = [pc EXCEPT ![s] = "ReadLine"]
  /\ UNCHANGED <<Server, req, err, events, mux, last>>

\* Process: ReadLine returns a line, or an error that ends the session
SessionReadLine(s) ==
  /\ pc[s] = "ReadLine"
  /\ IF req[s].left > 0
       THEN /\ pc' = [pc EXCEPT ![s] = "IsNil"]
            /\ req' = [req EXCEPT ![s].left = @ - 1]
       ELSE /\ pc' = [pc EXCEPT ![s] = "Return"]
            /\ req' = req
  /\ UNCHANGED <<Server, err, events, mux, last>>

\* Process: if req.Server.Processors == nil
SessionIsNil(s) ==
  /\ pc[s] = "IsNil"
  /\ \E seen \in Observable(s) :
       /\ pc' = [pc EXCEPT ![s] = IF seen = "nil" THEN "Assign" ELSE "Lookup"]
       /\ last' = [op |-> "read", by |-> s, seen |-> seen]
  /\ UNCHANGED <<Server, req, err, events, mux>>

\* Process: req.Server.Processors = DefaultProcessors
SessionAssign(s) ==
  /\ pc[s] = "Assign"
  /\ Server' = [Server EXCEPT !.Processors = "DefaultProcessors"]
  /\ req' = [req EXCEPT ![s].wrote = TRUE]
  /\ pc' = [pc EXCEPT ![s] = "Lookup"]
  /\ last' = [op |-> "write", by |-> s, seen |-> "DefaultProcessors"]
  /\ UNCHANGED <<err, events, mux>>

\* Process: processor, found := req.Server.Processors[req.Line[0]], and the
\* processor or the 500 reply
SessionLookup(s) ==
  /\ pc[s] = "Lookup"
  /\ \E seen \in Observable(s) :
       last' = [op |-> "read", by |-> s, seen |-> seen]
  /\ pc' = [pc EXCEPT ![s] = "ReadLine"]
  /\ UNCHANGED <<Server, req, err, events, mux>>

ServingNext ==
  \E s \in Sessions :
    \/ Spawn(s)
    \/ SessionReadLine(s)
    \/ SessionIsNil(s)
    \/ SessionAssign(s)
    \/ SessionLookup(s)

ServingSpec == ServingInit /\ [][ServingNext]_vars

(***************************************************************************)
(* The accept loop of Server.Serve. req holds Serve's tempDelay, in        *)
(* milliseconds, and the number of connections accepted; last holds what   *)
(* the loop did last, the time it slept, and the number of temporary       *)
(* errors since the last accepted connection.                              *)
(***************************************************************************)
\* a delay that doubles without a cap
NextDelay_NoCap(tempDelay) ==
  IF tempDelay = 0 THEN 5 ELSE tempDelay * 2

\* tempDelay after a temporary error
NextDelay(tempDelay) ==
  LET d == IF tempDelay = 0 THEN 5 ELSE tempDelay * 2
  IN  IF d > 1000 THEN 1000 ELSE d

AcceptInit ==
  /\ Server \in Servers
  /\ req = [tempDelay |-> 0, conns |-> 0]
  /\ pc = "Accept"
  /\ err = ""
  /\ events = <<>>
  /\ mux = NewServeMux
  /\ last = [op |-> "Serve", slept |-> 0, streak |-> 0]

\* l.Accept() fails with a temporary error: the delay is set
AcceptTemporary ==
  /\ pc = "Accept"
  /\ last.streak < MaxBackoffs
  /\ req' = [req EXCEPT !.tempDelay = NextDelay(@)]
  /\ pc' = "Sleep"
  /\ last' = [op |-> "temporary", slept |-> 0, streak |-> last.streak + 1]
  /\ UNCHANGED <<Server, err, events, mux>>

\* time.Sleep(tempDelay); continue
Sleep ==
  /\ pc = "Sleep"
  /\ pc' = "Accept"
  /\ last' = [last EXCEPT !.op = "Sleep", !.slept = req.tempDelay]
  /\ UNCHANGED <<Server, req, err, events, mux>>

\* l.Accept() fails with any other error: return e
AcceptFails ==
  /\ pc = "Accept"
  /\ pc' = "returned"
  /\ err' = "accept"
  /\ last' = [last EXCEPT !.op = "return", !.slept = 0]
  /\ UNCHANGED <<Server, req, events, mux>>

\* l.Accept() returns a connection: tempDelay = 0, NewRequest, go c.Serve()
AcceptConn ==
  /\ pc = "Accept"
  /\ req.conns < MaxConns
  /\ req' = [tempDelay |-> 0, conns |-> req.conns + 1]
  /\ last' = [op |-> "conn", slept |-> 0, streak |-> 0]
  /\ UNCHANGED <<Server, pc, err, events, mux>>

AcceptNext == AcceptTemporary \/ Sleep \/ AcceptFails \/ AcceptConn

AcceptSpec == AcceptInit /\ [][AcceptNext]_vars

(***************************************************************************)
(* Vocabulary of the properties.                                           *)
(***************************************************************************)
\* the events of one kind among those of a command
OfKind(ev, k) == SelectSeq(ev, LAMBDA e : e.kind = k)

Replies(ev) == OfKind(ev, "reply")

\* the last reply a command wrote; only used when there is one
LastReply(ev) == Replies(ev)[Len(Replies(ev))]

\* the step is Process running the processor of verb v (a step of ReadError
\* leaves the line as it was, writes nothing and ends with a read error)
Ran(v) ==
  /\ pc = "loop"
  /\ req'.Line # <<>>
  /\ req'.Line[1] = v
  /\ ~(err' = "read" /\ events' = <<>>)

\* the state is the one a command with verb v left behind
After(v) ==
  /\ pc # "greet"
  /\ req.Line # <<>>
  /\ req.Line[1] = v
  /\ ~(err = "read" /\ events = <<>>)

\* what the step did: a step of Serve's greeting or loop leaves its events in
\* events'; the steps of the deferred function do nothing of the kind
StepEvents == IF pc \in {"greet", "loop"} THEN events' ELSE <<>>

\* the session, without the scratch line tokens
Fields(r) == [r EXCEPT !.Line = <<>>]

\* the transaction fields are as Reset leaves them
TransactionReset(r) ==
  /\ r.From = <<>>
  /\ ~r.MailFromReceived
  /\ r.To = <<>>
  /\ r.Message = NilMessage

\* the TLS state of the session
TLSOf(r) == <<r.Conn, r.TLSState>>

\* the command read a body that mail.ReadMessage accepts
ParsedBody(ev) ==
  /\ Len(OfKind(ev, "readbody")) = 1
  /\ ~OfKind(ev, "readbody")[1].ioerr
  /\ ReadMessage(LimitDataSize(OfKind(ev, "readbody")[1].data,
                               Server.MaxBodySize)).ok

\* the command read a body and the read or the parse failed
FailedBody(ev) ==
  /\ Len(OfKind(ev, "readbody")) = 1
  /\ \/ OfKind(ev, "readbody")[1].ioerr
     \/ ~ReadMessage(LimitDataSize(OfKind(ev, "readbody")[1].data,
                                   Server.MaxBodySize)).ok

BadSequence == Reply(503, "Bad sequence of commands")

(***************************************************************************)
(* C1. The handler is invoked only by DATA, and only from a state where    *)
(* MailFromReceived is true and the recipient list is not empty. A DATA in *)
(* any other state is answered "503 Bad sequence of commands" (unless that *)
(* write fails), invokes no handler, reads no body, and leaves every field *)
(* of the session but the scratch line tokens as it was.                   *)
(***************************************************************************)
C1_HandlerOnlyFromData ==
  [][ /\ OfKind(StepEvents, "handler") # <<>> =>
           Ran(vDATA) /\ req.MailFromReceived /\ req.To # <<>>
      /\ (Ran(vDATA) /\ ~(req.MailFromReceived /\ req.To # <<>>)) =>
           /\ events' = IF err' = "" THEN <<BadSequence>> ELSE <<>>
           /\ Fields(req') = Fields(req)
           /\ err' = "" => pc' = "loop"
    ]_vars

\* a DATA after MAIL, with no recipient yet, has been refused
C1_Witness ==
  /\ After(vDATA)
  /\ pc = "loop"
  /\ events = <<BadSequence>>
  /\ req.MailFromReceived
  /\ req.To = <<>>

(***************************************************************************)
(* C2. A RCPT issued while MailFromReceived is false is answered with a    *)
(* 503 reply and appends nothing; the recipient list grows only by a RCPT  *)
(* that runs while MailFromReceived is true, and then by one address at    *)
(* its end.                                                                *)
(***************************************************************************)
C2_RcptNeedsMail ==
  [][ /\ (Ran(vRCPT) /\ ~req.MailFromReceived) =>
           /\ req'.To = req.To
           /\ \A i \in 1..Len(Replies(events')) : Replies(events')[i].code = 503
           /\ err' = "" => Len(Replies(events')) = 1
      /\ Len(req'.To) > Len(req.To) =>
           /\ Ran(vRCPT)
           /\ req.MailFromReceived
           /\ Len(req'.To) = Len(req.To) + 1
           /\ SubSeq(req'.To, 1, Len(req.To)) = req.To
    ]_vars

\* a RCPT sent before any MAIL has been refused
C2_Witness ==
  /\ After(vRCPT)
  /\ Len(req.Line) = 2
  /\ events = <<BadSequence>>
  /\ ~req.MailFromReceived
  /\ req.To = <<>>

(***************************************************************************)
(* C3. A DATA whose body is read and parsed invokes the handler exactly    *)
(* once, after the 354 reply and the read and before the final reply, with *)
(* From and the recipient list the transaction accumulated; the message is *)
(* then gone from the session (the transaction is reset), so it cannot be  *)
(* handed over again; and no command invokes the handler more than once or *)
(* without being DATA.                                                     *)
(***************************************************************************)
C3_HandlerExactlyOnce ==
  [][ /\ (Ran(vDATA) /\ ParsedBody(events')) =>
           /\ Len(events') >= 3
           /\ events'[1] = Reply(354, "End data with <CR><LF>.<CR><LF>")
           /\ events'[2].kind = "readbody"
           /\ events'[3].kind = "handler"
           /\ events'[3].req.From = req.From
           /\ events'[3].req.To = req.To
           /\ events'[3].req.Message.present
           /\ Len(OfKind(events', "handler")) = 1
           /\ Len(events') = IF err' = "" THEN 4 ELSE 3
           /\ err' = "" => events'[4].kind = "reply"
                           /\ events'[4].code \in {250, 450}
           /\ TransactionReset(req')
      /\ Len(OfKind(StepEvents, "handler")) <= 1
      /\ OfKind(StepEvents, "handler") # <<>> =>
           Ran(vDATA) /\ ParsedBody(events')
    ]_vars

\* a message has been handed to the handler and answered 250 OK
C3_Witness ==
  /\ After(vDATA)
  /\ Len(events) = 4
  /\ events[3].kind = "handler"
  /\ events[3].req.From = AddrA
  /\ events[3].req.To = <<AddrB>>
  /\ events[4] = Reply(250, "OK")

(***************************************************************************)
(* C4. After a DATA whose handler returned no error, and after a RSET,     *)
(* From is empty, MailFromReceived is false, the recipient list is empty   *)
(* and Message is absent, and AuthUser and the TLS state are what they     *)
(* were before the command.                                                *)
(***************************************************************************)
C4_ResetKeepsAuthAndTLS ==
  [][ (\/ Ran(vRSET)
       \/ /\ Ran(vDATA)
          /\ \E i \in 1..Len(events') :
               events'[i].kind = "handler" /\ events'[i].result = "")
      => /\ TransactionReset(req')
         /\ req'.AuthUser = req.AuthUser
         /\ TLSOf(req') = TLSOf(req)
    ]_vars

\* an authenticated client on a TLS session has had a message accepted
C4_Witness ==
  /\ After(vDATA)
  /\ \E i \in 1..Len(events) :
       events[i].kind = "handler" /\ events[i].result = ""
  /\ req.AuthUser # <<>>
  /\ req.TLSState
  /\ TransactionReset(req)

(***************************************************************************)
(* C5. When reading or parsing the DATA body fails, the server replies     *)
(* 503, the transaction is reset, the handler is not invoked and the       *)
(* session goes on (so that a DATA that follows is refused).               *)
(***************************************************************************)
C5_ParseFailureResets ==
  [][ (Ran(vDATA) /\ FailedBody(events')) =>
        /\ OfKind(events', "handler") = <<>>
        /\ err' = "" => LastReply(events').code = 503 /\ pc' = "loop"
        /\ req'.From = <<>>
        /\ ~req'.MailFromReceived
        /\ req'.To = <<>>
    ]_vars

(***************************************************************************)
(* C6. When the handler returns an error for a DATA, the reply is 450 with *)
(* the error's text, the transaction is reset, AuthUser and the TLS state  *)
(* are unchanged, and the dispatcher loop goes on.                         *)
(***************************************************************************)
C6_HandlerErrorIs450 ==
  [][ \A i \in 1..Len(events') :
        (Ran(vDATA) /\ events'[i].kind = "handler" /\ events'[i].result # "")
        => /\ TransactionReset(req')
           /\ req'.AuthUser = req.AuthUser
           /\ TLSOf(req') = TLSOf(req)
           /\ ~req'.QuitSent
           /\ err' = "" => /\ LastReply(events') = Reply(450, events'[i].result)
                           /\ i = Len(events') - 1
                           /\ pc' = "loop"
    ]_vars

\* the handler of an authenticated client's message has returned an error
C6_Witness ==
  /\ After(vDATA)
  /\ pc = "loop"
  /\ Len(events) = 4
  /\ events[3].kind = "handler"
  /\ events[3].result = "mailbox unavailable"
  /\ events[3].req.AuthUser # <<>>
  /\ events[4] = Reply(450, "mailbox unavailable")

(***************************************************************************)
(* C7. With a body-size limit N > 0, a DATA body of length <= N reaches    *)
(* the handler verbatim (the message the handler reads is the message the  *)
(* client sent, nothing added), and a DATA body of length > N is answered  *)
(* 503 and never reaches the handler.                                      *)
(***************************************************************************)
C7_SizeLimitRoundTrip ==
  [][ (/\ Ran(vDATA)
       /\ Server.MaxBodySize > 0
       /\ Len(OfKind(events', "readbody")) = 1
       /\ ~OfKind(events', "readbody")[1].ioerr)
      => LET d == OfKind(events', "readbody")[1].data
             h == OfKind(events', "handler")
         IN  IF Len(d) <= Server.MaxBodySize
               THEN ReadMessage(d).ok =>
                      /\ Len(h) = 1
                      /\ h[1].req.Message = ReadMessage(d).msg
             ELSE /\ h = <<>>
                  /\ err' = "" => LastReply(events').code = 503
    ]_vars

\* the state a command with verb EHLO or HELO left after writing its banner
BannerWritten ==
  /\ After(vEHLO) \/ After(vHELO)
  /\ events # <<>>
  /\ events[1].text = "Greets"

\* the banner in ev has the continuation line 250-text
Advertises(ev, text) ==
  \E i \in 1..Len(ev) :
    ev[i].kind = "reply" /\ ev[i].code = 250 /\ ev[i].cont /\ ev[i].text = text

(***************************************************************************)
(* C8. In every reachable state, the EHLO/HELO banner contains             *)
(* 250-AUTH PLAIN iff an auth callback is configured and TLS is not        *)
(* configured or the session is already wrapped (a banner cut short by a   *)
(* failed write is judged once it got past the place of that line); it     *)
(* never contains AUTH PLAIN while TLS is configured and not yet active.   *)
(***************************************************************************)
C8_AuthAdvertisedIff ==
  BannerWritten =>
    /\ Advertises(events, "AUTH PLAIN") =>
         Server.Auth /\ (~Server.TLSConfig \/ req.TLSState)
    /\ Advertises(events, "PIPELINING") =>
         (Advertises(events, "AUTH PLAIN") <=>
            Server.Auth /\ (~Server.TLSConfig \/ req.TLSState))
    /\ (Server.TLSConfig /\ ~req.TLSState) => ~Advertises(events, "AUTH PLAIN")

\* a full banner on a cleartext session of a server with TLS and auth: it
\* offers STARTTLS and withholds AUTH PLAIN
C8_Witness ==
  /\ BannerWritten
  /\ err = ""
  /\ Server.Auth
  /\ Server.TLSConfig
  /\ ~req.TLSState
  /\ Advertises(events, "STARTTLS")
  /\ ~Advertises(events, "AUTH PLAIN")

(***************************************************************************)
(* C9. The EHLO banner contains 250-STARTTLS iff TLS is configured and the *)
(* session is not yet wrapped; a successful STARTTLS leaves the session    *)
(* wrapped and it stays wrapped, so every later EHLO does not advertise    *)
(* STARTTLS and advertises AUTH PLAIN iff an auth callback is configured.  *)
(***************************************************************************)
C9_StartTLSAdvertisedIff ==
  [][ /\ ((Ran(vEHLO) \/ Ran(vHELO)) /\ events' # <<>>
            /\ events'[1].text = "Greets") =>
           /\ Advertises(events', "STARTTLS") =>
                Server.TLSConfig /\ ~req.TLSState
           /\ Advertises(events', "PIPELINING") =>
                (Advertises(events', "STARTTLS") <=>
                   Server.TLSConfig /\ ~req.TLSState)
           /\ req.TLSState =>
                /\ ~Advertises(events', "STARTTLS")
                /\ Advertises(events', "PIPELINING") =>
                     (Advertises(events', "AUTH PLAIN") <=> Server.Auth)
      /\ (Ran(vSTARTTLS) /\ err' = "" /\ OfKind(events', "handshake") # <<>>)
           => req'.TLSState
      /\ req.TLSState => req'.TLSState
    ]_vars

\* a full banner on a wrapped session: AUTH PLAIN and no STARTTLS
C9_Witness ==
  /\ BannerWritten
  /\ err = ""
  /\ req.TLSState
  /\ Server.Auth
  /\ Advertises(events, "AUTH PLAIN")
  /\ ~Advertises(events, "STARTTLS")

(***************************************************************************)
(* C10. STARTTLS performs a handshake only when TLS is configured and the  *)
(* session is not yet wrapped, and no other command performs one;          *)
(* otherwise it replies 454 and changes nothing. The TLS state changes     *)
(* only by a successful handshake on an unwrapped session, is present only *)
(* if TLS is configured, and once present it stays as it is.               *)
(***************************************************************************)
C10_StartTLSOnce ==
  [][ /\ OfKind(StepEvents, "handshake") # <<>> =>
           /\ Ran(vSTARTTLS)
           /\ Server.TLSConfig
           /\ ~req.TLSState
           /\ Len(OfKind(events', "handshake")) = 1
      /\ (Ran(vSTARTTLS) /\ ~(Server.TLSConfig /\ ~req.TLSState)) =>
           /\ Fields(req') = Fields(req)
           /\ Len(events') = IF err' = "" THEN 1 ELSE 0
           /\ \A i \in 1..Len(events') :
                events'[i].kind = "reply" /\ events'[i].code = 454
           /\ err' = "" => pc' = "loop"
      /\ TLSOf(req') # TLSOf(req) =>
           /\ ~req.TLSState
           /\ req'.TLSState
           /\ \E i \in 1..Len(events') :
                events'[i].kind = "handshake" /\ events'[i].ok
      /\ req.TLSState => TLSOf(req') = TLSOf(req)
      /\ req'.TLSState => Server.TLSConfig
    ]_vars

\* a second STARTTLS on a wrapped session has been refused
C10_Witness ==
  /\ After(vSTARTTLS)
  /\ req.TLSState
  /\ pc = "loop"
  /\ events = <<Reply(454, "TLS session already active")>>

\* the user name inside a PLAIN response: the second NUL-separated part
PlainUser(ppwd) == BytesToString(SplitNul(B64Decode(ppwd))[2])

\* the transaction fields of a session
Transaction(r) == <<r.From, r.MailFromReceived, r.To, r.Message>>

(***************************************************************************)
(* C11. A well-formed AUTH PLAIN on a server with an auth callback: if the *)
(* callback accepts, AuthUser becomes the user name supplied and the reply *)
(* is 235; if it rejects, AuthUser becomes empty, whatever it was, and the *)
(* reply is 535. Either way the dispatcher loop goes on and the            *)
(* transaction fields are unchanged. The callback is called for nothing    *)
(* but AUTH.                                                               *)
(***************************************************************************)
C11_AuthSetsOrClearsUser ==
  [][ \A i \in 1..Len(StepEvents) :
        events'[i].kind = "auth" =>
          /\ Ran(vAUTH)
          /\ Server.Auth
          /\ Len(OfKind(events', "auth")) = 1
          /\ Len(req'.Line) = 3 => events'[i].user = PlainUser(req'.Line[3])
          /\ Transaction(req') = Transaction(req)
          /\ TLSOf(req') = TLSOf(req)
          /\ ~req'.QuitSent
          /\ req'.AuthUser = IF events'[i].ok THEN events'[i].user ELSE <<>>
          /\ err' = "" =>
               /\ pc' = "loop"
               /\ LastReply(events') =
                    IF events'[i].ok
                      THEN Reply(235, "2.7.0 Authentication successful")
                      ELSE Reply(535, "5.7.8  Authentication credentials invalid")
    ]_vars

\* the callback has accepted the user "u" in the middle of a transaction
C11_Witness ==
  /\ After(vAUTH)
  /\ pc = "loop"
  /\ req.AuthUser = <<"u">>
  /\ req.MailFromReceived
  /\ LastReply(events) = Reply(235, "2.7.0 Authentication successful")

(***************************************************************************)
(* C12. On a server with an auth callback, a MAIL issued while AuthUser is *)
(* empty is answered 503 Authentication needed and changes no field of the *)
(* session; MAIL sets MailFromReceived only while AuthUser is non-empty.   *)
(***************************************************************************)
C12_MailNeedsAuth ==
  [][ /\ (Ran(vMAIL) /\ Server.Auth /\ req.AuthUser = <<>>) =>
           /\ events' = IF err' = "" THEN <<Reply(503, "Authentication needed")>>
                        ELSE <<>>
           /\ Fields(req') = Fields(req)
      /\ (Server.Auth /\ ~req.MailFromReceived /\ req'.MailFromReceived) =>
           /\ Ran(vMAIL)
           /\ req.AuthUser # <<>>
    ]_vars

\* a well-formed MAIL of a client that has not logged in has been refused
C12_Witness ==
  /\ After(vMAIL)
  /\ Server.Auth
  /\ req.AuthUser = <<>>
  /\ req.Line = <<vMAIL, tFROM \o Angle(AddrA)>>
  /\ events = <<Reply(503, "Authentication needed")>>
  /\ ~req.MailFromReceived

(***************************************************************************)
(* C16. In every reachable state, MailFromReceived = FALSE implies that    *)
(* From is empty and the recipient list is empty.                          *)
(***************************************************************************)
C16_NoMailNoTransaction ==
  ~req.MailFromReceived => (req.From = <<>> /\ req.To = <<>>)

\* a transaction with a sender and a recipient has been handed over and wiped
C16_Witness ==
  /\ After(vDATA)
  /\ \E i \in 1..Len(events) :
       /\ events[i].kind = "handler"
       /\ events[i].req.From # <<>>
       /\ events[i].req.To # <<>>
  /\ ~req.MailFromReceived
  /\ req.From = <<>>
  /\ req.To = <<>>

\* Serve has returned: nothing is read or written any more, and the deferred
\* function closes the line codec and then the socket
TearingDown ==
  /\ req' = req
  /\ events' = events
  /\ err' = err
  /\ \/ pc = "defer" /\ pc' = "textproto-closed"
     \/ pc = "textproto-closed" /\ pc' = "closed"

(***************************************************************************)
(* C14. QUIT sets QuitSent and replies 221 OK and changes nothing else;    *)
(* after it no command line is read or processed: the only steps left      *)
(* close the line codec and then the socket. Only QUIT sets QuitSent, and  *)
(* QuitSent, once true, is never cleared.                                  *)
(***************************************************************************)
C14_QuitEndsSession ==
  [][ /\ Ran(vQUIT) =>
           /\ Fields(req') = [Fields(req) EXCEPT !.QuitSent = TRUE]
           /\ events' = IF err' = "" THEN <<Reply(221, "OK")>> ELSE <<>>
           /\ pc' = "defer"
      /\ (req'.QuitSent /\ ~req.QuitSent) => Ran(vQUIT)
      /\ req.QuitSent => req'.QuitSent /\ TearingDown
    ]_vars

\* the session of a client that said QUIT is closed
C14_Witness ==
  /\ pc = "closed"
  /\ req.QuitSent
  /\ err = ""
  /\ events = <<Reply(221, "OK")>>

Typed(raw) ==
  CHOOSE ka \in Verbs \X Arguments :
    \E S \in SUBSET (1..Len(ka[1])) : Spell(ka[1], S) \o ka[2] = raw

(***************************************************************************)
(* C13. Process selects the processor by the upper-cased first token only: *)
(* every spelling of a verb, with any argument, gets the processor that    *)
(* the table holds for the verb, the same one as the upper-case spelling   *)
(* gets; a processor is called only if the upper-cased token is its key;   *)
(* and a token with no key gets 500 Command not recognized (<VERB>) and no *)
(* processor.                                                              *)
(***************************************************************************)
C13_LookupIgnoresCase ==
  last.op = "Process" =>
    LET k == Typed(last.line)[1]
        a == Typed(last.line)[2]
    IN  /\ last.proc = LookupOnly(k \o a).proc
        /\ last.proc = IF k \in DOMAIN DefaultProcessors
                         THEN DefaultProcessors[k] ELSE ""
        /\ last.proc # "" =>
             /\ last.Line[1] \in DOMAIN DefaultProcessors
             /\ DefaultProcessors[last.Line[1]] = last.proc
             /\ last.reply = <<>>
        /\ last.proc = "" =>
             last.reply = <<ReplyArg(500, "Command not recognized", k)>>

\* "qUiT QUIT" has been given to quitProcessor
C13_Witness ==
  /\ last.op = "Process"
  /\ last.line = <<"q","U","i","T"," ">> \o vQUIT
  /\ last.proc = "quitProcessor"

\* the slot (d, l) of the table holds an entry
Populated(mx, d, l) == d \in DOMAIN mx.m /\ l \in DOMAIN mx.m[d]

\* the first populated slot of a chain of slots has been invoked, and the
\* dispatch has failed with Bad Address if none is populated
FirstOf(chain) ==
  LET pop == {i \in 1..Len(chain) : Populated(mux, chain[i][1], chain[i][2])}
  IN  IF pop = {}
        THEN last.called = <<>> /\ last.err = "Bad Address"
      ELSE LET i == CHOOSE x \in pop : \A y \in pop : x <= y
           IN  last.called = <<mux.m[chain[i][1]][chain[i][2]].h>>

\* ServeSMTP has dispatched a recipient that has an "@"
Dispatched == last.op = "ServeSMTP" /\ ~SplitAddress(last.to).err

\* the domain and the canonical local of the recipient dispatched
ToDomain == SplitAddress(last.to).domain
ToCanonical == CanonicalizeEmail(SplitAddress(last.to).local)

(***************************************************************************)
(* C17 as stated. Dispatch tries the slots (d, cl), (d, "*"), ("*", cl),   *)
(* ("*", "*") in that order and invokes the handler of the first populated *)
(* one, whatever the registrations; it fails with Bad Address only when    *)
(* none of the four is populated.                                          *)
(***************************************************************************)
C17_FourSlotChain ==
  Dispatched =>
    FirstOf(<< <<ToDomain, ToCanonical>>, <<ToDomain, Star>>,
               <<Star, ToCanonical>>, <<Star, Star>> >>)

(***************************************************************************)
(* C17 amended. The domain is settled first: when the table has any entry  *)
(* under the domain d, dispatch tries (d, cl) and then (d, "*") and        *)
(* nothing else; only when it has no entry under d does it try ("*", cl)   *)
(* and then ("*", "*"). It invokes the handler of the first populated slot *)
(* it tries, and fails with Bad Address when none of those is populated.   *)
(***************************************************************************)
C17_DomainFirstChain ==
  Dispatched =>
    IF ToDomain \in DOMAIN mux.m
      THEN FirstOf(<< <<ToDomain, ToCanonical>>, <<ToDomain, Star>> >>)
      ELSE FirstOf(<< <<Star, ToCanonical>>, <<Star, Star>> >>)

\* c@b fails with Bad Address although ("*", "*") is populated, because the
\* domain b has an entry for another local
C17_Witness ==
  /\ Dispatched
  /\ last.to = <<"c","@","b">>
  /\ Populated(mux, <<"b">>, <<"a">>)
  /\ ~Populated(mux, <<"b">>, Star)
  /\ Populated(mux, Star, Star)
  /\ last.called = <<>>
  /\ last.err = "Bad Address"

\* the registrations the table holds
Registered(mx) ==
  UNION {{[pattern |-> mx.m[d][l].pattern, handler |-> mx.m[d][l].h] :
            l \in DOMAIN mx.m[d]} : d \in DOMAIN mx.m}

FourRegistrations ==
  { [pattern |-> PatAB, handler |-> "H1"],
    [pattern |-> PatStarB, handler |-> "H2"],
    [pattern |-> PatAStar, handler |-> "H3"],
    [pattern |-> PatStarStar, handler |-> "H4"] }

(***************************************************************************)
(* C18. With exactly the registrations a@b -> H1, *@b -> H2, a@* -> H3,    *)
(* *@* -> H4, made through Handle in any order, dispatching a@b invokes    *)
(* H1, c@b invokes H2, a@c invokes H3 and c@c invokes H4: that handler     *)
(* once and no other, and the dispatch returns what the handler returned.  *)
(***************************************************************************)
C18_FourPatterns ==
  (last.op = "ServeSMTP" /\ Registered(mux) = FourRegistrations) =>
    /\ last.to = <<"a","@","b">> => last.called = <<"H1">>
    /\ last.to = <<"c","@","b">> => last.called = <<"H2">>
    /\ last.to = <<"a","@","c">> => last.called = <<"H3">>
    /\ last.to = <<"c","@","c">> => last.called = <<"H4">>
    /\ last.called # <<>> => last.err \in HandlerErrors

\* with the four registrations, c@c has gone to H4
C18_Witness ==
  /\ last.op = "ServeSMTP"
  /\ Registered(mux) = FourRegistrations
  /\ last.to = <<"c","@","c">>
  /\ last.called = <<"H4">>
  /\ last.err = ""

(***************************************************************************)
(* C19. A Handle whose (domain, canonical local) pair is that of an entry  *)
(* already in the table is a registration error (log.Fatal) and leaves the *)
(* table as it was, whatever the spelling of the local part.               *)
(***************************************************************************)
C19_DuplicateIsError ==
  [][ (/\ last'.op = "Handle"
       /\ ~SplitAddress(last'.pattern).err
       /\ LET a == SplitAddress(last'.pattern)
              l == IF a.local = <<>> THEN Star ELSE a.local
          IN  /\ a.domain \in DOMAIN mux.m
              /\ \E k \in DOMAIN mux.m[a.domain] :
                   CanonicalizeEmail(k) = CanonicalizeEmail(l))
      => (last'.fatal /\ mux' = mux)
    ]_vars

(***************************************************************************)
(* C20. The table is keyed by the canonical local: once l@d is registered  *)
(* with handler h, dispatching a recipient l'@d whose local has the same   *)
(* canonical form as l invokes h.                                          *)
(***************************************************************************)
C20_KeyedByCanonical ==
  (Dispatched /\ ToDomain \in DOMAIN mux.m) =>
    \A l \in DOMAIN mux.m[ToDomain] :
      CanonicalizeEmail(l) = ToCanonical =>
        last.called = <<mux.m[ToDomain][l].h>>

(***************************************************************************)
(* C21. CanonicalizeEmail is idempotent: for every local part l,           *)
(* CanonicalizeEmail(CanonicalizeEmail(l)) = CanonicalizeEmail(l).         *)
(***************************************************************************)
C21_CanonicalizeIdempotent ==
  last.op = "CanonicalizeEmail" => CanonicalizeEmail(last.ret) = last.ret

\* the string s has no "@"
NoAt(s) == \A i \in 1..Len(s) : s[i] # "@"

(***************************************************************************)
(* C22 as stated. SplitAddress(l + "@" + d) returns (l, d) and no error    *)
(* for every l without "@" and any d; SplitAddress of a string without "@" *)
(* returns an error.                                                       *)
(***************************************************************************)
C22_SplitOfJoinAnyDomain ==
  last.op = "SplitAddress" =>
    /\ (last.address = last.l \o <<"@">> \o last.d /\ NoAt(last.l)) =>
         last.ret = [local |-> last.l, domain |-> last.d, err |-> FALSE]
    /\ NoAt(last.address) => last.ret.err

(***************************************************************************)
(* C22 amended. SplitAddress splits at the last "@": SplitAddress(l + "@"  *)
(* + d) returns (l, d) and no error for every d without "@" and any l;     *)
(* a string with an "@" never gives an error, and a string without "@"     *)
(* gives an error and empty parts.                                         *)
(***************************************************************************)
C22_SplitOfJoin ==
  last.op = "SplitAddress" =>
    /\ (last.address = last.l \o <<"@">> \o last.d /\ NoAt(last.d)) =>
         last.ret = [local |-> last.l, domain |-> last.d, err |-> FALSE]
    /\ last.ret.err <=> NoAt(last.address)
    /\ last.ret.err => last.ret.local = <<>> /\ last.ret.domain = <<>>
    /\ ~last.ret.err =>
         last.ret.local \o <<"@">> \o last.ret.domain = last.address

\* "a@a" + "@" + "a" has been split into "a@a" and "a"
C22_Witness ==
  /\ last.op = "SplitAddress"
  /\ last.l = <<"a","@","a">>
  /\ last.d = <<"a">>
  /\ last.ret = [local |-> <<"a","@","a">>, domain |-> <<"a">>, err |-> FALSE]

(***************************************************************************)
(* C23. The empty path "<>" is accepted only for MAIL: no RCPT appends an  *)
(* empty recipient and none is answered 250 for it, so the recipient list  *)
(* never holds an empty address.                                           *)
(***************************************************************************)
C23_NoEmptyRecipient ==
  \A i \in 1..Len(req.To) : req.To[i] # <<>>

\* the address a RCPT line carries, as rcptProcessor captures it
RcptAddress(line) ==
  emailRegExpAddr(From1(line[2], Index(line[2], ":")))

\* the calls of the Addressable callback a command made
Asked(ev) == OfKind(ev, "addressable")

(***************************************************************************)
(* C24. When an Addressable callback is configured and returns false for   *)
(* (AuthUser, address), RCPT replies "501 no such user - <address>" and    *)
(* does not append the address. The recipient list follows the RCPT        *)
(* commands answered "250 Ok": such a RCPT appends its address at the end, *)
(* any other answered RCPT leaves the list alone, every other command      *)
(* leaves the list alone or resets the transaction, and the handler is     *)
(* given the list as it is when DATA is issued.                            *)
(***************************************************************************)
C24_RecipientsAreAcceptedRcpts ==
  [][ /\ (Ran(vRCPT) /\ Asked(events') # <<>>) =>
           /\ Server.Addressable
           /\ Len(Asked(events')) = 1
           /\ events'[1] = [kind |-> "addressable", user |-> req.AuthUser,
                            address |-> RcptAddress(req'.Line),
                            ok |-> events'[1].ok]
           /\ ~events'[1].ok =>
                /\ req'.To = req.To
                /\ Replies(events') =
                     IF err' = ""
                       THEN <<ReplyArg(501, "no such user - ",
                                       RcptAddress(req'.Line))>>
                       ELSE <<>>
      /\ (Ran(vRCPT) /\ err' = "") =>
           /\ Len(Replies(events')) = 1
           /\ req'.To = IF LastReply(events') = Reply(250, "Ok")
                          THEN Append(req.To, RcptAddress(req'.Line))
                          ELSE req.To
           /\ (Server.Addressable /\ LastReply(events') = Reply(250, "Ok")) =>
                Asked(events') # <<>> /\ Asked(events')[1].ok
      /\ ~Ran(vRCPT) => req'.To = req.To \/ TransactionReset(req')
      /\ \A i \in 1..Len(StepEvents) :
           StepEvents[i].kind = "handler" => StepEvents[i].req.To = req.To
    ]_vars

\* after one accepted recipient the callback has refused the next, and the
\* list still holds the first alone
C24_Witness ==
  /\ After(vRCPT)
  /\ Server.Addressable
  /\ events = <<[kind |-> "addressable", user |-> req.AuthUser,
                 address |-> AddrB, ok |-> FALSE],
                ReplyArg(501, "no such user - ", AddrB)>>
  /\ req.To = <<AddrB>>
  /\ pc = "loop"


\* the step is a command that was answered with a rejection for its syntax
\* or for its place in the sequence
Rejected ==
  /\ pc = "loop"
  /\ err' = ""
  /\ Replies(events') # <<>>
  /\ req'.Line # <<>>
  /\ LET c == LastReply(events').code
         v == req'.Line[1]
     IN  \/ c = 500
         \/ c = 501 /\ v \in {vEHLO, vHELO, vAUTH, vMAIL, vRCPT}
         \/ c = 502 /\ v = vAUTH
         \/ c = 503 /\ v \in {vMAIL, vRCPT}
         \/ c = 503 /\ v = vDATA /\ OfKind(events', "readbody") = <<>>
         \/ c = 454 /\ v = vSTARTTLS

(***************************************************************************)
(* C26. A command rejected for syntax or sequence (500 unknown verb; 501   *)
(* from EHLO, AUTH, MAIL or RCPT; 502 from AUTH; 503 from MAIL, RCPT or    *)
(* the DATA precondition; 454 from STARTTLS) leaves every session field    *)
(* other than the scratch line tokens unchanged, invokes no handler, and   *)
(* the session continues with the next command.                            *)
(***************************************************************************)
C26_RejectionChangesNothing ==
  [][ Rejected =>
        /\ Fields(req') = Fields(req)
        /\ OfKind(events', "handler") = <<>>
        /\ pc' = "loop"
    ]_vars

\* a second MAIL in the middle of a transaction has been refused, and the
\* sender and the recipient are still there
C26_Witness ==
  /\ After(vMAIL)
  /\ pc = "loop"
  /\ events = <<Reply(503, "MAIL command already recieved")>>
  /\ req.From = AddrA
  /\ req.MailFromReceived
  /\ req.To = <<AddrB>>
  /\ req.HelloRecieved


\* the step is an EHLO or HELO that wrote its whole reply
HelloDone ==
  /\ (Ran(vEHLO) \/ Ran(vHELO))
  /\ err' = ""
  /\ LastReply(events') = Reply(250, "8BITMIME")

\* the step is a STARTTLS whose handshake succeeded
HandshakeDone ==
  /\ Ran(vSTARTTLS)
  /\ err' = ""
  /\ OfKind(events', "handshake") # <<>>

(***************************************************************************)
(* C27. A successful EHLO or HELO, at any point of the session, and a      *)
(* successful STARTTLS each reset the transaction fields (From,            *)
(* MailFromReceived, recipient list, Message). EHLO or HELO then sets      *)
(* hello-received and records the hello host; STARTTLS clears              *)
(* hello-received and writes no reply after the handshake. Hello-received  *)
(* gates no command: MAIL is refused with 503 only for a missing login or  *)
(* a sender already set, RCPT only for a missing MAIL, DATA only for a     *)
(* missing MAIL or recipient or a body that failed, and no other command   *)
(* answers 503.                                                            *)
(***************************************************************************)
C27_HelloAndStartTLSReset ==
  [][ /\ HelloDone =>
           /\ TransactionReset(req')
           /\ req'.HelloRecieved
           /\ req'.HelloHost = req'.Line[2]
      /\ HandshakeDone =>
           /\ TransactionReset(req')
           /\ ~req'.HelloRecieved
           /\ req'.TLSState
           /\ events' = <<Reply(220, "Ready to start TLS"),
                          [kind |-> "handshake", ok |-> TRUE]>>
      /\ (pc = "loop" /\ err' = "" /\ Replies(events') # <<>>
          /\ LastReply(events').code = 503) =>
           \/ Ran(vMAIL) /\ ((Server.Auth /\ req.AuthUser = <<>>)
                             \/ req.From # <<>>)
           \/ Ran(vRCPT) /\ ~req.MailFromReceived
           \/ Ran(vDATA) /\ (~req.MailFromReceived \/ req.To = <<>>
                             \/ FailedBody(events'))
      /\ (Ran(vMAIL) /\ err' = "" /\ ~(Server.Auth /\ req.AuthUser = <<>>)
          /\ req.From = <<>>) =>
           LastReply(events').code \in {250, 501}
    ]_vars

\* after a STARTTLS, and with no EHLO on the wrapped connection, a MAIL has
\* been accepted
C27_Witness ==
  /\ After(vMAIL)
  /\ pc = "loop"
  /\ LastReply(events) = Reply(250, "Ok")
  /\ req.TLSState
  /\ ~req.HelloRecieved
  /\ req.MailFromReceived


\* the null reverse-path as the argument of MAIL
NullPath == tFROM \o Angle(<<>>)

(***************************************************************************)
(* C28. A MAIL with the null reverse-path "MAIL FROM:<>" is accepted with  *)
(* "250 Ok" and opens a transaction: a RCPT that follows it is not refused *)
(* with 503, and a DATA that follows an accepted RCPT of that transaction  *)
(* and whose body is read hands the message to the handler with From equal *)
(* to the empty string.                                                    *)
(***************************************************************************)
C28_NullSenderOpensTransaction ==
  [][ /\ (Ran(vMAIL) /\ err' = "" /\ Len(req'.Line) = 2
          /\ req'.Line[2] = NullPath
          /\ ~(Server.Auth /\ req.AuthUser = <<>>) /\ req.From = <<>>) =>
           /\ LastReply(events') = Reply(250, "Ok")
           /\ req'.From = <<>>
      /\ (After(vMAIL) /\ pc = "loop" /\ Len(req.Line) = 2
          /\ req.Line[2] = NullPath
          /\ LastReply(events) = Reply(250, "Ok")
          /\ Ran(vRCPT) /\ err' = "") =>
           LastReply(events').code # 503
      /\ (After(vRCPT) /\ pc = "loop" /\ req.From = <<>>
          /\ LastReply(events) = Reply(250, "Ok")
          /\ Ran(vDATA) /\ err' = "") =>
           /\ LastReply(events').code # 503 \/ FailedBody(events')
           /\ \A i \in 1..Len(events') :
                events'[i].kind = "handler" => events'[i].req.From = <<>>
    ]_vars


\* two sessions are about to access Server.Processors, one of them to write
Racing ==
  \E s, t \in Sessions :
    /\ s # t
    /\ pc[s] = "Assign"
    /\ pc[t] \in {"IsNil", "Assign", "Lookup"}

(***************************************************************************)
(* C25. While the server is serving, no session writes to the shared       *)
(* server configuration, whatever the number of sessions and the           *)
(* interleaving, and also for a server created without a processor map:    *)
(* sessions only read it, so no two accesses to it race.                   *)
(***************************************************************************)
C25_SessionsOnlyRead ==
  [][Server' = Server /\ ~Racing]_vars


\* the step is readCommand's DATA case, and the handler was called
FannedOut ==
  /\ pc = "loop"
  /\ req'.parts # <<>>
  /\ req'.parts[1] = vDATA
  /\ OfKind(events', "handler") # <<>>

(***************************************************************************)
(* C29. In the per-recipient fan-out, DATA invokes the handler once per    *)
(* recipient, in the order of the recipient list, with the same From and   *)
(* body; if any one of those invocations returns an error the DATA is      *)
(* answered 450, and 250 OK otherwise; in both outcomes the transaction is *)
(* reset.                                                                  *)
(***************************************************************************)
C29_AnyErrorIs450 ==
  [][ FannedOut =>
        LET calls == OfKind(events', "handler")
            body == OfKind(events', "readbody")[1].data
        IN  /\ Len(calls) = Len(req.mailTo)
            /\ \A i \in 1..Len(calls) :
                 /\ calls[i].env.MessageTo = req.mailTo[i]
                 /\ calls[i].env.MessageFrom = req.mailFrom
                 /\ calls[i].env.MessageData = body
            /\ err' = "" =>
                 LastReply(events').code =
                   IF \E i \in 1..Len(calls) : calls[i].result # ""
                     THEN 450 ELSE 250
            /\ req'.mailFrom = <<>>
            /\ req'.mailTo = <<>>
            /\ ~req'.mailData.present
    ]_vars


\* the delays of the first eight temporary errors in a row
Doubling == <<5, 10, 20, 40, 80, 160, 320, 640>>

(***************************************************************************)
(* C30. In the accept loop the n-th temporary accept error in a row sleeps *)
(* 5 ms for n = 1, then twice the delay before it (10, 20, ... 640 ms) and *)
(* 1 s from the ninth on; a successful accept resets the delay, so the     *)
(* next temporary error sleeps 5 ms again; a non-temporary accept error    *)
(* makes Serve return that error; and the delay never exceeds 1 s.         *)
(***************************************************************************)
C30_BackoffDoublesToCap ==
  [][ /\ last'.op = "temporary" =>
           /\ req'.tempDelay = IF last'.streak <= Len(Doubling)
                                 THEN Doubling[last'.streak] ELSE 1000
           /\ pc' = "Sleep"
      /\ last'.op = "Sleep" =>
           /\ last'.slept = req.tempDelay
           /\ last'.slept = IF last.streak <= Len(Doubling)
                              THEN Doubling[last.streak] ELSE 1000
           /\ pc' = "Accept"
      /\ last'.op = "conn" =>
           /\ req'.tempDelay = 0
           /\ last'.streak = 0
           /\ pc' = "Accept"
      /\ last'.op = "return" => pc' = "returned" /\ err' = "accept"
      /\ pc = "returned" => UNCHANGED vars
      /\ req'.tempDelay <= 1000
    ]_vars

\* the tenth temporary error in a row has slept one second
C30_Witness ==
  /\ last.op = "Sleep"
  /\ last.streak = 10
  /\ last.slept = 1000
  /\ req.conns > 0


(***************************************************************************)
(* C31. When an auth callback is configured, every invocation of the       *)
(* handler sees a non-empty AuthUser, whatever the commands before it      *)
(* were, further AUTH commands after an accepted MAIL included.            *)
(***************************************************************************)
C31_HandlerSeesAuthUser ==
  [][ \A i \in 1..Len(StepEvents) :
        (StepEvents[i].kind = "handler" /\ Server.Auth) =>
          StepEvents[i].req.AuthUser # <<>>
    ]_vars


(***************************************************************************)
(* C32. Within one transaction at most one MAIL is accepted: once a MAIL   *)
(* has been answered "250 Ok", every further MAIL before the next reset is *)
(* answered 503 and changes neither From nor the recipient list, whatever  *)
(* the first sender was, the null path included.                           *)
(***************************************************************************)
C32_OneMailPerTransaction ==
  [][ (req.MailFromReceived /\ Ran(vMAIL)) =>
        /\ req'.From = req.From
        /\ req'.To = req.To
        /\ err' = "" => LastReply(events').code = 503
    ]_vars


(***************************************************************************)
(* C33. Whenever the handler is invoked, the SPF result and the Mailable   *)
(* flag it sees are those of the session, computed by the MAIL of the same *)
(* transaction for its sender: a MAIL with a sender leaves the outcome of  *)
(* its own lookups, and a transaction opened with the null sender shows    *)
(* the handler no result and no flag of an earlier transaction.            *)
(***************************************************************************)
C33_LookupsOfThisTransaction ==
  [][ /\ (Ran(vMAIL) /\ OfKind(events', "lookup") # <<>>) =>
           /\ OfKind(events', "lookup")[1].from = req'.From
           /\ \E chk \in Lookups :
                req'.SPFResult = chk.spf /\ req'.Mailable = chk.mx
      /\ \A i \in 1..Len(StepEvents) :
           StepEvents[i].kind = "handler" =>
             /\ StepEvents[i].req.SPFResult = req.SPFResult
             /\ StepEvents[i].req.Mailable = req.Mailable
             /\ StepEvents[i].req.From = <<>> =>
                  /\ StepEvents[i].req.SPFResult = NewRequest.SPFResult
                  /\ StepEvents[i].req.Mailable = NewRequest.Mailable
    ]_vars


(***************************************************************************)
(* C34. While TLS is configured and the session is not yet TLS-wrapped,    *)
(* the states in which EHLO does not advertise AUTH PLAIN, an AUTH command *)
(* never invokes the auth callback and never sets AuthUser.                *)
(***************************************************************************)
C34_AuthOnlyWhereAdvertised ==
  [][ (Ran(vAUTH) /\ Server.TLSConfig /\ ~req.TLSState) =>
        /\ ~AdvertiseAuth(Server, req)
        /\ OfKind(events', "auth") = <<>>
        /\ req'.AuthUser = req.AuthUser
    ]_vars

(***************************************************************************)
(* C35. After a successful STARTTLS, AuthUser is empty until an AUTH       *)
(* succeeds on the TLS-wrapped connection: the handshake leaves AuthUser   *)
(* empty, and on the wrapped connection AuthUser becomes non-empty only by *)
(* an AUTH that the callback accepts.                                      *)
(***************************************************************************)
C35_LoginDoesNotSurviveStartTLS ==
  [][ /\ HandshakeDone => req'.AuthUser = <<>>
      /\ (pc = "loop" /\ req.TLSState /\ req.AuthUser = <<>>
          /\ req'.AuthUser # <<>>) =>
           /\ Ran(vAUTH)
           /\ OfKind(events', "auth") # <<>>
           /\ OfKind(events', "auth")[1].ok
    ]_vars

====
